---- MODULE Spec2Model ----
(***************************************************************************)
(* A model of the fair-price standardization and consolidation pipeline:   *)
(*   src/src/standardization/validators.py   (field checks, row score)     *)
(*   src/src/standardization/processor.py    (load, clean, validate, emit) *)
(*   src/src/consolidation/consolidators.py  (load, reconcile, resolve)    *)
(*                                                                         *)
(* Column names and texts are sequences of one-character strings, so that  *)
(* prefix and substring tests are computed as the code computes them.      *)
(* Cell values are tagged: I(n) an integer, S(s) an opaque string, T(t) a  *)
(* text of characters, NA the missing value (NaN / None).                  *)
(***************************************************************************)
EXTENDS Integers, Sequences, FiniteSets, TLC

VARIABLES
    pc,               \* position of the operation under way
    dataframes,       \* consolidator: the dict year -> DataFrame, in insertion order
    strategy,         \* resolve_duplicates: the strategy argument
    sorted_df,        \* resolve_duplicates: the frame after sort_values
    consolidated_df,  \* resolve_duplicates: the frame before the helper columns go
    final_df,         \* resolve_duplicates: the returned frame
    warnings,         \* consolidator: the warnings logged, in order
    cnpj,             \* validate_cnpj: the argument
    cnpj_result,      \* validate_cnpj: "True", "False", or the exception raised
    row,              \* row scoring: the row
    validation_rules, \* row scoring: the rules argument of the validators module
    scorer,           \* row scoring: which implementation ran
    checks,           \* row scoring: the outcome of each check, in the order made
    score,            \* row scoring: the returned score, a fraction
    input_file,       \* standardize_file: the raw file at input_path
    output_stem,      \* standardize_file: the name of output_path, without .csv
    attempts,         \* load_raw_csv: the combinations tried, in order
    df_raw,           \* standardize_file: the loaded table
    df_clean,         \* standardize_file: the cleaned table
    df_validated,     \* standardize_file: the table with its quality columns
    report,           \* standardize_file: the report returned
    processed,        \* the directory of standardized files: name -> file
    unified,          \* consolidator: whether its config has a unified_schema
    schema_validation,    \* consolidate_all_data: the schema report
    duplicate_detection,  \* consolidate_all_data: the duplicate report
    final_validation,     \* consolidate_all_data: the report on the final table
    saved_files,          \* consolidate_all_data: the formats written, in order
    writes,               \* save_consolidated_data: the writes made, in order
    consolidation_report, \* consolidate_all_data: the summary returned
    pending,          \* the run: the raw files still to standardize, by year
    reports,          \* the run: the reports of the files standardized
    cleaner,          \* a cleaning function: the module it is taken from
    value,            \* a cleaning function: the argument of the first call
    cleaned           \* a cleaning function: what each successive call returned

resolveVars == <<dataframes, strategy, sorted_df, consolidated_df, final_df, warnings>>
cnpjVars == <<cnpj, cnpj_result>>
scoreVars == <<row, validation_rules, scorer, checks, score>>
standardizeVars ==
    <<input_file, output_stem, attempts, df_raw, df_clean, df_validated, report>>

consolidateVars ==
    <<unified, schema_validation, duplicate_detection, final_validation, saved_files, writes,
      consolidation_report>>

pipelineVars == <<pending, reports>>
cleanerVars == <<cleaner, value, cleaned>>

vars ==
    <<pc, resolveVars, cnpjVars, scoreVars, standardizeVars, processed, consolidateVars,
      pipelineVars, cleanerVars>>

----------------------------------------------------------------------------
(* Values and tables *)

I(n) == [i |-> n]
S(s) == [s |-> s]
T(t) == [t |-> t]
NA == [na |-> TRUE]
\* the float infinity, which pandas reads from the text "inf"
INF == [f |-> "inf"]

NoTable == [cols |-> <<>>, rows |-> <<>>]

Range(f) == {f[x] : x \in DOMAIN f}

Max(A) == CHOOSE a \in A : \A b \in A : b <= a

\* str.startswith(prefix)
StartsWith(name, prefix) ==
    /\ Len(name) >= Len(prefix)
    /\ SubSeq(name, 1, Len(prefix)) = prefix

\* needle in haystack (substring test of Python's `in` on str)
Contains(haystack, needle) ==
    \E k \in 0..(Len(haystack) - Len(needle)) :
        SubSeq(haystack, k + 1, k + Len(needle)) = needle

\* the variables of an operation that is not under way
ResolveIdle ==
    /\ dataframes = <<>>
    /\ strategy = "keep_latest"
    /\ sorted_df = NoTable
    /\ consolidated_df = NoTable
    /\ final_df = NoTable
    /\ warnings = <<>>

CnpjIdle == cnpj = NA /\ cnpj_result = "none"

NoRules == [has_required |-> FALSE, required_fields |-> <<>>]

NoScore == [num |-> 0, den |-> 1]

ScoreIdle ==
    /\ row = <<>>
    /\ validation_rules = NoRules
    /\ scorer = "none"
    /\ checks = <<>>
    /\ score = NoScore

NoFile == [encoding |-> "utf-8", sep |-> ",", header |-> <<>>, lines |-> <<>>,
           unreadable |-> {}]

NoReport == [returned |-> FALSE]

StandardizeIdle ==
    /\ input_file = NoFile
    /\ output_stem = <<>>
    /\ attempts = <<>>
    /\ df_raw = NoTable
    /\ df_clean = NoTable
    /\ df_validated = NoTable
    /\ report = NoReport

\* an empty directory
NoFiles == <<>>

ConsolidateIdle ==
    /\ unified = TRUE
    /\ schema_validation = NoReport
    /\ duplicate_detection = NoReport
    /\ final_validation = NoReport
    /\ saved_files = <<>>
    /\ writes = <<>>
    /\ consolidation_report = NoReport

PipelineIdle == pending = <<>> /\ reports = <<>>

CleanerIdle == cleaner = "none" /\ value = <<>> /\ cleaned = <<>>

----------------------------------------------------------------------------
(* Column names *)

ano == <<"a","n","o">>
uf == <<"u","f">>
codigo_br == <<"c","o","d","i","g","o","_","b","r">>
source_year == <<"_","s","o","u","r","c","e","_","y","e","a","r">>
consolidation_id ==
    <<"_","c","o","n","s","o","l","i","d","a","t","i","o","n","_","i","d">>
descricao_catmat == <<"d","e","s","c","r","i","c","a","o","_","c","a","t","m","a","t">>
cnpj_fabricante == <<"c","n","p","j","_","f","a","b","r","i","c","a","n","t","e">>
cnpj_fornecedor == <<"c","n","p","j","_","f","o","r","n","e","c","e","d","o","r">>
cnpj_instituicao == <<"c","n","p","j","_","i","n","s","t","i","t","u","i","c","a","o">>
qtd_itens_comprados ==
    <<"q","t","d","_","i","t","e","n","s","_","c","o","m","p","r","a","d","o","s">>
preco_unitario == <<"p","r","e","c","o","_","u","n","i","t","a","r","i","o">>
preco_total == <<"p","r","e","c","o","_","t","o","t","a","l">>
unidade_fornecimento ==
    <<"u","n","i","d","a","d","e","_","f","o","r","n","e","c","i","m","e","n","t","o">>
generico == <<"g","e","n","e","r","i","c","o">>
anvisa == <<"a","n","v","i","s","a">>
compra == <<"c","o","m","p","r","a">>
modalidade_compra ==
    <<"m","o","d","a","l","i","d","a","d","e","_","c","o","m","p","r","a">>
insercao == <<"i","n","s","e","r","c","a","o">>
tipo_compra == <<"t","i","p","o","_","c","o","m","p","r","a">>
fabricante == <<"f","a","b","r","i","c","a","n","t","e">>
fornecedor == <<"f","o","r","n","e","c","e","d","o","r">>
nome_instituicao ==
    <<"n","o","m","e","_","i","n","s","t","i","t","u","i","c","a","o">>
municipio_instituicao ==
    <<"m","u","n","i","c","i","p","i","o","_","i","n","s","t","i","t","u","i","c","a","o">>

----------------------------------------------------------------------------
(* Bounds *)

\* rows in all the yearly tables of one consolidation
MaxRows == 3

\* characters changed in a known CNPJ
MaxEdits == 1

----------------------------------------------------------------------------
(* DataFrame operations used by the consolidator (pandas semantics) *)

\* column lists joined in order of first appearance (pd.concat, join="outer")
RECURSIVE UnionCols(_)
UnionCols(colLists) ==
    IF colLists = <<>> THEN <<>>
    ELSE LET rest == UnionCols(Tail(colLists))
             head == Head(colLists)
         IN head \o SelectSeq(rest, LAMBDA c : c \notin Range(head))

\* a row laid out on a column list: a column the row lacks is missing (NaN)
Reindex(r, cols) ==
    [c \in Range(cols) |-> IF c \in DOMAIN r THEN r[c] ELSE NA]

RECURSIVE ConcatRows(_, _)
ConcatRows(frames, cols) ==
    IF frames = <<>> THEN <<>>
    ELSE [k \in 1..Len(Head(frames).rows) |-> Reindex(Head(frames).rows[k], cols)]
         \o ConcatRows(Tail(frames), cols)

\* pd.concat(frames, ignore_index=True) of a non-empty list
Concat(frames) ==
    LET cols == UnionCols([k \in 1..Len(frames) |-> frames[k].cols])
    IN [cols |-> cols, rows |-> ConcatRows(frames, cols)]

\* df[col] = values for a new column, one value per row position
WithColumn(df, col, values) ==
    [cols |-> df.cols \o <<col>>,
     rows |-> [k \in 1..Len(df.rows) |->
                 [c \in DOMAIN df.rows[k] \cup {col} |->
                     IF c = col THEN values[k] ELSE df.rows[k][c]]]]

\* df[columns]
Project(df, columns) ==
    [cols |-> columns,
     rows |-> [k \in 1..Len(df.rows) |-> [c \in Range(columns) |-> df.rows[k][c]]]]

\* the values a row has in the subset columns; missing equals missing, as in
\* DataFrame.duplicated
KeyOf(r, subset) == [c \in Range(subset) |-> r[c]]

RECURSIVE KeepFirst(_, _, _)
KeepFirst(rows, subset, seen) ==
    IF rows = <<>> THEN <<>>
    ELSE LET k == KeyOf(Head(rows), subset)
         IN IF k \in seen THEN KeepFirst(Tail(rows), subset, seen)
            ELSE <<Head(rows)>> \o KeepFirst(Tail(rows), subset, seen \cup {k})

RECURSIVE Reverse(_)
Reverse(q) == IF q = <<>> THEN <<>> ELSE Reverse(Tail(q)) \o <<Head(q)>>

\* drop_duplicates with keep='last' in place of keep='first'
DropDuplicatesKeepLast(df, subset) ==
    [cols |-> df.cols, rows |-> Reverse(KeepFirst(Reverse(df.rows), subset, {}))]

\* df.drop_duplicates(subset=subset, keep='first')
DropDuplicates(df, subset) ==
    [cols |-> df.cols, rows |-> KeepFirst(df.rows, subset, {})]

\* every order of the positions in P
Orders(P) ==
    {p \in [1..Cardinality(P) -> P] : \A a, b \in 1..Cardinality(P) : p[a] = p[b] => a = b}

\* The frames df.sort_values('_source_year', ascending=False) can return.  The
\* call leaves kind at its default, 'quicksort', which pandas documents as not
\* stable: rows of one source year may come out in any order.
RECURSIVE SortedRows(_, _, _)
SortedRows(rows, col, left) ==
    IF left = {} THEN {<<>>}
    ELSE LET top == Max({rows[k][col].i : k \in left})
             blk == {k \in left : rows[k][col].i = top}
         IN {[k \in 1..Cardinality(blk) |-> rows[p[k]]] \o rest :
                p \in Orders(blk), rest \in SortedRows(rows, col, left \ blk)}

\* sort_values with ascending=True in place of ascending=False
SortValuesAscending(df, col) ==
    {[cols |-> df.cols, rows |-> Reverse(r)] : r \in SortedRows(df.rows, col, DOMAIN df.rows)}

SortValuesDescending(df, col) ==
    {[cols |-> df.cols, rows |-> r] : r \in SortedRows(df.rows, col, DOMAIN df.rows)}

----------------------------------------------------------------------------
(* HealthDataConsolidator.resolve_duplicates *)

\* lines 247-253: the source tracking columns
WithSource(entry) ==
    WithColumn(WithColumn(entry.df, source_year,
                          [k \in 1..Len(entry.df.rows) |-> I(entry.year)]),
               consolidation_id, [k \in 1..Len(entry.df.rows) |-> I(k - 1)])

\* key columns that leave the state out as well
ResolveKeyColumnsWithoutState(cols) ==
    SelectSeq(cols, LAMBDA c : c \notin {ano, uf, source_year, consolidation_id})

\* lines 261-262 and 276-277
ResolveKeyColumns(cols) ==
    SelectSeq(cols, LAMBDA c : c \notin {ano, source_year, consolidation_id})

\* lines 281-282
ResolveBusinessColumns(cols) ==
    SelectSeq(cols, LAMBDA c : ~StartsWith(c, <<"_">>))

\* a resolve_duplicates that sorts and drops duplicates whatever the strategy
DeduplicatingAlways(s) == TRUE

\* a resolve_duplicates that takes every name but keep_all for keep_latest
DeduplicatingUnlessKeepAll(s) == s # "keep_all"

\* a resolve_duplicates whose aggregate branch removes nothing
DeduplicatingKeepLatestOnly(s) == s = "keep_latest"

\* the strategies whose branch sorts and drops duplicates: lines 259-266 and
\* lines 272-278
Deduplicating(s) == s \in {"keep_latest", "aggregate"}

\* pd.concat raises ValueError on an empty list of frames (line 256)
ResolveRaisesNoFrames ==
    /\ pc = "resolve"
    /\ dataframes = <<>>
    /\ pc' = "raised"
    /\ UNCHANGED <<dataframes, strategy, sorted_df, consolidated_df, final_df, warnings>>

\* the frames resolve_duplicates works through, for one outcome of the sort
ResolveSteps(sorted) ==
    LET kept == IF Deduplicating(strategy)
                THEN DropDuplicates(sorted, ResolveKeyColumns(sorted.cols))
                ELSE sorted
    IN /\ sorted_df' = sorted
       /\ consolidated_df' = kept
       /\ final_df' = Project(kept, ResolveBusinessColumns(kept.cols))

\* original_count = 0 makes line 286 divide by zero
ResolveRaisesZeroRows ==
    /\ pc = "resolve"
    /\ dataframes # <<>>
    /\ LET all == Concat([k \in 1..Len(dataframes) |-> WithSource(dataframes[k])])
       IN /\ Len(all.rows) = 0
          /\ pc' = "raised"
          /\ UNCHANGED <<dataframes, strategy, sorted_df, consolidated_df, final_df, warnings>>

ResolveReturns ==
    /\ pc = "resolve"
    /\ dataframes # <<>>
    /\ LET all == Concat([k \in 1..Len(dataframes) |-> WithSource(dataframes[k])])
       IN /\ Len(all.rows) > 0
          /\ \E sorted \in (IF Deduplicating(strategy)
                            THEN SortValuesDescending(all, source_year)
                            ELSE {all}) : ResolveSteps(sorted)
    /\ warnings' = (IF strategy = "aggregate" THEN Append(warnings, "aggregate") ELSE warnings)
    /\ pc' = "resolved"
    /\ UNCHANGED <<dataframes, strategy>>

resolve_duplicates == ResolveRaisesNoFrames \/ ResolveRaisesZeroRows \/ ResolveReturns

----------------------------------------------------------------------------
(* The specification of resolve_duplicates on bounded yearly tables *)

Strategies == {"keep_latest", "keep_all", "aggregate", "other"}

\* the key values a row can hold: a code and a state, or a code and no state
YearlyKeys == {<<S("A"), S("SP")>>, <<S("A"), NA>>}

YearlyColumns == <<ano, codigo_br, uf>>

\* a row of a yearly table: the year column holds a year
YearlyRows ==
    {[c \in Range(YearlyColumns) |->
         IF c = ano THEN I(y) ELSE IF c = codigo_br THEN k[1] ELSE k[2]] :
        y \in {2023, 2024}, k \in YearlyKeys}

\* the tables of n rows
YearlyTables(n) ==
    {[cols |-> YearlyColumns, rows |-> rows] : rows \in [1..n -> YearlyRows]}

\* the dicts year -> table the caller can pass, in insertion order
YearLists == {<<>>, <<2024>>, <<2023, 2024>>, <<2024, 2023>>}

\* with at most MaxRows rows in all
YearlyFrames(years) ==
    IF Len(years) = 0 THEN {<<>>}
    ELSE IF Len(years) = 1
    THEN UNION {{<<t>> : t \in YearlyTables(n)} : n \in 0..MaxRows}
    ELSE UNION {UNION {{<<t, u>> : t \in YearlyTables(n), u \in YearlyTables(m)} :
                          m \in 0..(MaxRows - n)} : n \in 0..MaxRows}

InitResolve ==
    /\ pc = "resolve"
    /\ \E years \in YearLists :
          \E dfs \in YearlyFrames(years) :
              dataframes = [k \in 1..Len(years) |-> [year |-> years[k], df |-> dfs[k]]]
    /\ strategy \in Strategies
    /\ sorted_df = NoTable
    /\ consolidated_df = NoTable
    /\ final_df = NoTable
    /\ warnings = <<>>
    /\ CnpjIdle
    /\ ScoreIdle
    /\ StandardizeIdle
    /\ processed = NoFiles
    /\ ConsolidateIdle
    /\ PipelineIdle
    /\ CleanerIdle

NextResolve ==
    resolve_duplicates /\ UNCHANGED <<cnpjVars, scoreVars, standardizeVars, processed, consolidateVars, pipelineVars, cleanerVars>>

SpecResolve == InitResolve /\ [][NextResolve]_vars


----------------------------------------------------------------------------
(* Claims about resolve_duplicates *)

\* the rows resolve_duplicates was given, tagged with their source
InputRows ==
    IF dataframes = <<>> THEN <<>>
    ELSE Concat([k \in 1..Len(dataframes) |-> WithSource(dataframes[k])]).rows

\* the business columns other than the year
NonYearColumns == SelectSeq(final_df.cols, LAMBDA c : c # ano)

\* the rows of input that agree with row r on every non-year business column
GroupOf(input, r) ==
    LET key == NonYearColumns
    IN {j \in DOMAIN input : KeyOf(input[j], key) = KeyOf(r, key)}

SourceYear(r) == r[source_year].i

TopYear(input, group) == Max({SourceYear(input[j]) : j \in group})

KeptLatest == pc = "resolved" /\ strategy = "keep_latest"

\* C1: after resolve_duplicates with keep_latest, every group of input rows
\* that agree on all columns other than ano and the bookkeeping columns has
\* exactly one row in the output, that row is a row of the group from the
\* highest source year of the group, and no two output rows agree on all
\* non-year business columns.
C1_KeepLatestOnePerGroup ==
    KeptLatest =>
        LET input == InputRows
            key == NonYearColumns
        IN /\ \A i \in DOMAIN input :
                 LET group == GroupOf(input, input[i])
                     out == {k \in DOMAIN final_df.rows :
                                KeyOf(final_df.rows[k], key) = KeyOf(input[i], key)}
                 IN /\ Cardinality(out) = 1
                    /\ \A k \in out :
                          /\ consolidated_df.rows[k] \in {input[j] : j \in group}
                          /\ SourceYear(consolidated_df.rows[k]) = TopYear(input, group)
                          /\ final_df.rows[k]
                                = [c \in Range(final_df.cols) |-> consolidated_df.rows[k][c]]
           /\ \A k, m \in DOMAIN final_df.rows :
                 KeyOf(final_df.rows[k], key) = KeyOf(final_df.rows[m], key) => k = m

\* a group with rows from both years was resolved, and a row of a lower year
\* was dropped
C1_Witness ==
    /\ KeptLatest
    /\ LET input == InputRows
       IN /\ \E i, j \in DOMAIN input :
                /\ j \in GroupOf(input, input[i])
                /\ SourceYear(input[i]) < SourceYear(input[j])
          /\ Len(final_df.rows) < Len(input)

\* the rows of a group that come from the highest source year of the group
TopRows(input, group) ==
    LET top == TopYear(input, group) IN {j \in group : SourceYear(input[j]) = top}

\* of those, the one that is first in the original row order of its table
FirstInTable(input, group) ==
    LET top == TopRows(input, group)
    IN CHOOSE j \in top :
          \A m \in top : input[j][consolidation_id].i <= input[m][consolidation_id].i

\* C3 as stated: under keep_latest the surviving row of a group is the row of
\* the highest source year that is first in the original row order of that
\* year's table.
C3_SurvivorFirstInTable ==
    KeptLatest =>
        LET input == InputRows
        IN \A k \in DOMAIN final_df.rows :
              LET first == input[FirstInTable(input, GroupOf(input, final_df.rows[k]))]
              IN final_df.rows[k] = [c \in Range(final_df.cols) |-> first[c]]

\* C3 amended: under keep_latest the frame is sorted by source year descending
\* and the surviving row of a group is the row of the group that the sort
\* placed first, a row of the highest source year; among several rows of that
\* year it need not be the first in the original order.
C3_SurvivorFirstInSorted ==
    KeptLatest =>
        LET input == InputRows
            key == NonYearColumns
        IN /\ \A p, q \in DOMAIN sorted_df.rows :
                 p < q => SourceYear(sorted_df.rows[p]) >= SourceYear(sorted_df.rows[q])
           /\ \A k \in DOMAIN consolidated_df.rows :
                 LET r == consolidated_df.rows[k] IN
                 /\ \E p \in DOMAIN sorted_df.rows :
                       /\ sorted_df.rows[p] = r
                       /\ \A q \in 1..(p - 1) : KeyOf(sorted_df.rows[q], key) # KeyOf(r, key)
                 /\ r \in {input[j] : j \in TopRows(input, GroupOf(input, r))}

\* a group has two rows of its highest year that differ in ano
C3_Witness ==
    /\ KeptLatest
    /\ LET input == InputRows
       IN \E k \in DOMAIN final_df.rows :
             \E i, j \in TopRows(input, GroupOf(input, final_df.rows[k])) :
                 input[i][ano] # input[j][ano]

----------------------------------------------------------------------------
(* validate_cnpj (validators.py), the same checks as                       *)
(* SimpleStandardizationProcessor._validate_cnpj (processor.py)            *)

\* The characters of the model.  "ar3" stands for U+0663 ARABIC-INDIC DIGIT
\* THREE, a decimal digit: str.isdigit accepts it and int() gives 3.  "sup2"
\* stands for U+00B2 SUPERSCRIPT TWO: str.isdigit accepts it and int() raises
\* ValueError.  "x", "." and "-" are not digits.
AsciiDigits == {"0", "1", "2", "3", "4", "5", "6", "7", "8", "9"}

Characters == AsciiDigits \cup {"ar3", "sup2", "x"}

\* str.isdigit, per character
IsDigit(c) == c \in AsciiDigits \cup {"ar3", "sup2"}

\* the characters int() converts
IsDecimal(c) == c \in AsciiDigits \cup {"ar3"}

\* int(c) of a character int() converts
IntOf(c) ==
    CASE c = "0" -> 0 [] c = "1" -> 1 [] c = "2" -> 2 [] c = "3" -> 3 [] c = "4" -> 4
      [] c = "5" -> 5 [] c = "6" -> 6 [] c = "7" -> 7 [] c = "8" -> 8 [] c = "9" -> 9
      [] c = "ar3" -> 3

weights_1 == <<5, 4, 3, 2, 9, 8, 7, 6, 5, 4, 3, 2>>
weights_2 == <<6, 5, 4, 3, 2, 9, 8, 7, 6, 5, 4, 3, 2>>

\* sum(int(cnpj[i]) * weights[i] for i in range(n))
RECURSIVE WeightedSum(_, _, _)
WeightedSum(text, weights, n) ==
    IF n = 0 THEN 0
    ELSE WeightedSum(text, weights, n - 1) + IntOf(text[n]) * weights[n]

\* digit = 0 if remainder < 2 else 11 - remainder
CheckDigit(sum) == IF sum % 11 < 2 THEN 0 ELSE 11 - (sum % 11)

\* the result of validate_cnpj(v): "True", "False", or "ValueError" when an
\* int() conversion raises
validate_cnpj(v) ==
    IF "t" \notin DOMAIN v THEN "False"                      \* None, or not a str
    ELSE IF v.t = <<>> \/ Len(v.t) # 14 THEN "False"         \* line 29
    ELSE IF \E k \in 1..14 : ~IsDigit(v.t[k]) THEN "False"   \* line 33
    ELSE IF Cardinality(Range(v.t)) = 1 THEN "False"         \* line 37
    ELSE IF \E k \in 1..12 : ~IsDecimal(v.t[k]) THEN "ValueError"   \* line 42
    ELSE IF ~IsDecimal(v.t[13]) THEN "ValueError"            \* line 46
    ELSE IF IntOf(v.t[13]) # CheckDigit(WeightedSum(v.t, weights_1, 12)) THEN "False"
    ELSE IF ~IsDecimal(v.t[14]) THEN "ValueError"            \* line 55
    ELSE IF IntOf(v.t[14]) = CheckDigit(WeightedSum(v.t, weights_2, 13)) THEN "True"
    ELSE "False"

ValidateCnpj ==
    /\ pc = "cnpj"
    /\ cnpj_result' = validate_cnpj(cnpj)
    /\ pc' = "cnpj_done"
    /\ UNCHANGED cnpj

----------------------------------------------------------------------------
(* The specification of validate_cnpj on bounded arguments *)

\* the valid and the invalid CNPJ of the docstring (lines 24-27)
KnownValidCnpj == <<"1","1","2","2","2","3","3","3","0","0","0","1","8","1">>
KnownInvalidCnpj == <<"1","2","3","4","5","6","7","8","0","0","0","1","9","0">>

\* the texts that differ from text in at most n places
RECURSIVE Edited(_, _)
Edited(text, n) ==
    IF n = 0 THEN {text}
    ELSE LET fewer == Edited(text, n - 1)
         IN fewer \cup {[e EXCEPT ![k] = c] : e \in fewer, k \in DOMAIN text, c \in Characters}

CnpjArguments ==
    {T(t) : t \in Edited(KnownValidCnpj, MaxEdits) \cup Edited(KnownInvalidCnpj, MaxEdits)}
    \cup {T([k \in 1..14 |-> c]) : c \in Characters}
    \cup {T(SubSeq(KnownValidCnpj, 1, n)) : n \in 0..13}
    \cup {T(KnownValidCnpj \o <<c>>) : c \in Characters}
    \cup {NA, I(0), I(1)}

InitCnpj ==
    /\ pc = "cnpj"
    /\ cnpj \in CnpjArguments
    /\ cnpj_result = "none"
    /\ ResolveIdle
    /\ ScoreIdle
    /\ StandardizeIdle
    /\ processed = NoFiles
    /\ ConsolidateIdle
    /\ PipelineIdle
    /\ CleanerIdle

NextCnpj ==
    ValidateCnpj /\ UNCHANGED <<resolveVars, scoreVars, standardizeVars, processed, consolidateVars, pipelineVars, cleanerVars>>

SpecCnpj == InitCnpj /\ [][NextCnpj]_vars

----------------------------------------------------------------------------
(* Claims about validate_cnpj *)

\* the check digit the claim computes from the first n digits
ClaimedCheckDigit(text, weights, n) ==
    LET sum == WeightedSum(text, weights, n)
    IN IF sum % 11 < 2 THEN 0 ELSE 11 - (sum % 11)

\* a string of exactly 14 digit characters, not all identical, whose 13th and
\* 14th digits are the two check digits
ClaimedValidCnpj(v) ==
    /\ "t" \in DOMAIN v
    /\ Len(v.t) = 14
    /\ \A k \in 1..14 : IsDecimal(v.t[k])
    /\ \E k, m \in 1..14 : v.t[k] # v.t[m]
    /\ IntOf(v.t[13]) = ClaimedCheckDigit(v.t, weights_1, 12)
    /\ IntOf(v.t[14]) = ClaimedCheckDigit(v.t, weights_2, 13)

\* C4: validate_cnpj(v) returns true exactly when v is a string of 14 digit
\* characters, not all identical, whose 13th and 14th digits are the check
\* digits of the two weighted sums modulo 11, and returns false otherwise.
C4_ValidateCnpjDecides ==
    pc = "cnpj_done" =>
        cnpj_result = (IF ClaimedValidCnpj(cnpj) THEN "True" ELSE "False")

----------------------------------------------------------------------------
(* Conversions of cell values (Python's str, int, float, str.upper,        *)
(* str.lower, str.strip) on the values and characters of the model.        *)
(* A character outside ASCII is written by a name: "a_tilde" is U+00E3,    *)
(* "A_tilde" U+00C3, "nbsp" U+00A0, "sup2" U+00B2, "ar3" U+0663,           *)
(* "u_uml" U+00FC.                                                         *)

LowerLetters ==
    <<"a","b","c","d","e","f","g","h","i","j","k","l","m",
      "n","o","p","q","r","s","t","u","v","w","x","y","z","a_tilde">>
UpperLetters ==
    <<"A","B","C","D","E","F","G","H","I","J","K","L","M",
      "N","O","P","Q","R","S","T","U","V","W","X","Y","Z","A_tilde">>

\* str.upper
Upper(text) ==
    [k \in DOMAIN text |->
        IF \E n \in DOMAIN LowerLetters : LowerLetters[n] = text[k]
        THEN UpperLetters[CHOOSE n \in DOMAIN LowerLetters : LowerLetters[n] = text[k]]
        ELSE text[k]]

\* str.lower
Lower(text) ==
    [k \in DOMAIN text |->
        IF \E n \in DOMAIN UpperLetters : UpperLetters[n] = text[k]
        THEN LowerLetters[CHOOSE n \in DOMAIN UpperLetters : UpperLetters[n] = text[k]]
        ELSE text[k]]

\* the characters str.isspace holds for
Whitespace == {" ", "nbsp"}

\* str.strip()
RECURSIVE StripLeft(_)
StripLeft(text) ==
    IF text # <<>> /\ Head(text) \in Whitespace THEN StripLeft(Tail(text)) ELSE text

Strip(text) == Reverse(StripLeft(Reverse(StripLeft(text))))

\* the decimal digits of n >= 0
RECURSIVE Digits(_)
Digits(n) ==
    LET d == <<"0","1","2","3","4","5","6","7","8","9">>[(n % 10) + 1]
    IN IF n < 10 THEN <<d>> ELSE Digits(n \div 10) \o <<d>>

\* a bool cell value
B(b) == [b |-> b]

\* a float cell value with a fraction: sign, whole part and the digits of the
\* fraction without trailing zeros.  A float without a fraction is the cell
\* value I(n): Python and pandas compare 10.0 and 10 equal.
Dec(neg, whole, frac) == [neg |-> neg, w |-> whole, fr |-> frac]

\* str(value)
Str(v) ==
    IF "t" \in DOMAIN v THEN v.t
    ELSE IF "i" \in DOMAIN v THEN (IF v.i < 0 THEN <<"-">> \o Digits(-v.i) ELSE Digits(v.i))
    ELSE IF "b" \in DOMAIN v THEN (IF v.b THEN <<"T","r","u","e">> ELSE <<"F","a","l","s","e">>)
    ELSE IF "fr" \in DOMAIN v
    THEN (IF v.neg THEN <<"-">> ELSE <<>>) \o Digits(v.w) \o <<".">> \o v.fr
    ELSE IF v = INF THEN <<"i","n","f">>
    ELSE <<"n","a","n">>

\* the value of a text of decimal digits
RECURSIVE DecimalValue(_)
DecimalValue(text) ==
    IF text = <<>> THEN 0
    ELSE 10 * DecimalValue(SubSeq(text, 1, Len(text) - 1)) + IntOf(text[Len(text)])

\* a numeral without its sign
Unsigned(text) == IF text # <<>> /\ Head(text) \in {"-", "+"} THEN Tail(text) ELSE text

\* the digits int() accepts: decimal digits, single underscores between them
IsDigitGroup(digits) ==
    /\ digits # <<>>
    /\ \A k \in DOMAIN digits : IsDecimal(digits[k]) \/ digits[k] = "_"
    /\ digits[1] # "_" /\ digits[Len(digits)] # "_"
    /\ \A k \in 1..(Len(digits) - 1) : ~(digits[k] = "_" /\ digits[k + 1] = "_")

\* whether int(text) succeeds: a digit group after an optional sign, with
\* whitespace around
IsNumeral(text) == IsDigitGroup(Unsigned(Strip(text)))

NumeralValue(text) ==
    LET body == Strip(text)
        digits == SelectSeq(Unsigned(body), LAMBDA c : c # "_")
    IN IF Head(body) = "-" THEN 0 - DecimalValue(digits) ELSE DecimalValue(digits)

\* int(value): [ok, n], or the exception raised.  A text that is no integer
\* numeral raises ValueError, float infinity raises OverflowError, None raises
\* TypeError.
IntParse(v) ==
    IF "i" \in DOMAIN v THEN [ok |-> TRUE, n |-> v.i]
    ELSE IF "b" \in DOMAIN v THEN [ok |-> TRUE, n |-> IF v.b THEN 1 ELSE 0]
    ELSE IF "fr" \in DOMAIN v THEN [ok |-> TRUE, n |-> IF v.neg THEN 0 - v.w ELSE v.w]
    ELSE IF v = INF THEN [ok |-> FALSE, exc |-> "OverflowError"]
    ELSE IF "t" \in DOMAIN v
    THEN (IF IsNumeral(v.t) THEN [ok |-> TRUE, n |-> NumeralValue(v.t)]
          ELSE [ok |-> FALSE, exc |-> "ValueError"])
    ELSE [ok |-> FALSE, exc |-> "TypeError"]

\* the texts float() reads as a number: digits with at most one "." after an
\* optional sign, with whitespace around (exponents and underscores are not in
\* the texts of the model)
IsFloatNumeral(text) ==
    LET body == Unsigned(Strip(text))
    IN /\ \A k \in DOMAIN body : IsDecimal(body[k]) \/ body[k] = "."
       /\ Cardinality({k \in DOMAIN body : body[k] = "."}) <= 1
       /\ \E k \in DOMAIN body : IsDecimal(body[k])

\* the texts float() reads as infinity and as not-a-number
IsFloatInfinity(text) ==
    Lower(Unsigned(Strip(text))) \in {<<"i","n","f">>, <<"i","n","f","i","n","i","t","y">>}

IsFloatNan(text) == Lower(Unsigned(Strip(text))) = <<"n","a","n">>

\* float(text) > 0 for a text float() accepts
FloatTextPositive(text) ==
    LET body == Strip(text)
    IN /\ ~IsFloatNan(text)
       /\ Head(body) # "-"
       /\ \/ IsFloatInfinity(text)
          \/ \E k \in DOMAIN body : IsDecimal(body[k]) /\ IntOf(body[k]) # 0

\* whether float(value) > 0, or the exception raised
FloatPositive(v) ==
    IF "i" \in DOMAIN v THEN [ok |-> TRUE, positive |-> v.i > 0]
    ELSE IF "b" \in DOMAIN v THEN [ok |-> TRUE, positive |-> v.b]
    ELSE IF "fr" \in DOMAIN v THEN [ok |-> TRUE, positive |-> ~v.neg]
    ELSE IF v = INF THEN [ok |-> TRUE, positive |-> TRUE]
    ELSE IF "t" \in DOMAIN v
    THEN (IF Strip(v.t) # <<>>
             /\ (IsFloatNumeral(v.t) \/ IsFloatInfinity(v.t) \/ IsFloatNan(v.t))
          THEN [ok |-> TRUE, positive |-> FloatTextPositive(v.t)]
          ELSE [ok |-> FALSE, exc |-> "ValueError"])
    ELSE [ok |-> FALSE, exc |-> "TypeError"]

\* pd.isna(value)
IsNa(v) == v = NA

----------------------------------------------------------------------------
(* Field validators (validators.py) *)

valid_states ==
    {<<"A","C">>, <<"A","L">>, <<"A","P">>, <<"A","M">>, <<"B","A">>, <<"C","E">>,
     <<"D","F">>, <<"E","S">>, <<"G","O">>, <<"M","A">>, <<"M","T">>, <<"M","S">>,
     <<"M","G">>, <<"P","A">>, <<"P","B">>, <<"P","R">>, <<"P","E">>, <<"P","I">>,
     <<"R","J">>, <<"R","N">>, <<"R","S">>, <<"R","O">>, <<"R","R">>, <<"S","C">>,
     <<"S","P">>, <<"S","E">>, <<"T","O">>}

\* validate_brazilian_state(uf) of a str
validate_brazilian_state(text) ==
    IF text = <<>> THEN FALSE ELSE Strip(Upper(text)) \in valid_states

min_year == 2010
max_year == 2030

\* validate_year_range(year): "True", "False", or the exception that escapes
\* the except clause (ValueError and TypeError are caught)
validate_year_range(v) ==
    LET parsed == IntParse(v)
    IN IF parsed.ok THEN (IF min_year <= parsed.n /\ parsed.n <= max_year THEN "True" ELSE "False")
       ELSE IF parsed.exc \in {"ValueError", "TypeError"} THEN "False"
       ELSE parsed.exc

\* validate_positive_number(value)
validate_positive_number(v) ==
    LET parsed == FloatPositive(v)
    IN IF parsed.ok /\ parsed.positive THEN "True" ELSE "False"

\* one entry of validate_required_fields: the field is in the row and its
\* value is neither missing nor blank (lines 130-140)
RequiredFieldValid(r, field) ==
    /\ field \in DOMAIN r
    /\ ~IsNa(r[field])
    /\ Strip(Str(r[field])) # <<>>

\* the results dict of validate_required_fields: one entry per distinct name of
\* the list, a name the row lacks included
validate_required_fields(r, required_fields) ==
    [field \in Range(required_fields) |-> RequiredFieldValid(r, field)]

\* the names of a list without repeats, in order of first appearance (the keys
\* of the results dict)
RECURSIVE DistinctNames(_)
DistinctNames(names) ==
    IF names = <<>> THEN <<>>
    ELSE LET before == DistinctNames(SubSeq(names, 1, Len(names) - 1))
             last == names[Len(names)]
         IN IF last \in Range(before) THEN before ELSE before \o <<last>>

Outcome(b) == IF b THEN "pass" ELSE "fail"

\* "True"/"False"/exception to a check outcome
CheckOf(result) ==
    IF result = "True" THEN "pass" ELSE IF result = "False" THEN "fail" ELSE result

----------------------------------------------------------------------------
(* calculate_row_quality_score (validators.py lines 145-197) *)

cnpj_fields == <<cnpj_fabricante, cnpj_fornecedor, cnpj_instituicao>>
numeric_fields == <<qtd_itens_comprados, preco_unitario, preco_total>>

Present(r, field) == field \in DOMAIN r /\ ~IsNa(r[field])

\* lines 160-163: one check per entry of the results dict
RequiredChecks(r, rules) ==
    IF rules.has_required
    THEN LET results == validate_required_fields(r, rules.required_fields)
             keys == SelectSeq(DistinctNames(rules.required_fields),
                               LAMBDA f : f \in DOMAIN results)
         IN [k \in DOMAIN keys |-> Outcome(results[keys[k]])]
    ELSE <<>>

\* lines 166-171
CnpjChecks(r) ==
    LET present == SelectSeq(cnpj_fields, LAMBDA f : Present(r, f))
    IN [k \in DOMAIN present |-> CheckOf(validate_cnpj(T(Str(r[present[k]]))))]

\* lines 174-177
StateChecks(r) ==
    IF Present(r, uf) THEN <<Outcome(validate_brazilian_state(Str(r[uf])))>> ELSE <<>>

\* lines 180-183
YearChecks(r) ==
    IF Present(r, ano) THEN <<CheckOf(validate_year_range(r[ano]))>> ELSE <<>>

\* lines 186-191
NumericChecks(r) ==
    LET present == SelectSeq(numeric_fields, LAMBDA f : Present(r, f))
    IN [k \in DOMAIN present |-> CheckOf(validate_positive_number(r[present[k]]))]

\* every check the function makes, in order
ValidatorChecks(r, rules) ==
    RequiredChecks(r, rules) \o CnpjChecks(r) \o StateChecks(r) \o YearChecks(r)
        \o NumericChecks(r)

Raised(cs) == \E k \in DOMAIN cs : cs[k] \notin {"pass", "fail"}

\* the checks made before the first one that raises
RECURSIVE UntilRaise(_)
UntilRaise(cs) ==
    IF cs = <<>> THEN <<>>
    ELSE IF Head(cs) \notin {"pass", "fail"} THEN <<Head(cs)>>
    ELSE <<Head(cs)>> \o UntilRaise(Tail(cs))

Passed(cs) == Cardinality({k \in DOMAIN cs : cs[k] = "pass"})

\* (passed_checks / total_checks) * 100, and 0.0 when no check was made
ScoreOf(cs) ==
    IF Len(cs) = 0 THEN [num |-> 0, den |-> 1]
    ELSE [num |-> 100 * Passed(cs), den |-> Len(cs)]

CalculateRowQualityScore ==
    /\ pc = "score"
    /\ LET cs == UntilRaise(ValidatorChecks(row, validation_rules))
       IN /\ checks' = cs
          /\ score' = IF Raised(cs) THEN NoScore ELSE ScoreOf(cs)
          /\ pc' = IF Raised(cs) THEN "raised" ELSE "scored"
    /\ scorer' = "validators"
    /\ UNCHANGED <<row, validation_rules>>

----------------------------------------------------------------------------
(* _calculate_quality_score and its flag checks (processor.py lines        *)
(* 273-356)                                                                *)

\* [col for col in row.index if keyword in col.lower()]
ColumnsWith(index, keyword) == SelectSeq(index, LAMBDA c : Contains(Lower(c), keyword))

\* the outcome of scanning fields in order for the first one that holds:
\* "True" at the first field whose test is "True", the exception of a test
\* that raises before that, "False" when the fields run out
RECURSIVE FirstTrue(_)
FirstTrue(results) ==
    IF results = <<>> THEN "False"
    ELSE IF Head(results) = "False" THEN FirstTrue(Tail(results))
    ELSE Head(results)

\* _check_valid_cnpj (lines 273-281); _validate_cnpj is validate_cnpj on a str
check_valid_cnpj(r, index) ==
    LET fields == ColumnsWith(index, <<"c","n","p","j">>)
    IN FirstTrue([k \in DOMAIN fields |->
                    IF IsNa(r[fields[k]]) THEN "False"
                    ELSE validate_cnpj(T(Str(r[fields[k]])))])

\* _check_valid_state (lines 302-310)
check_valid_state(r) ==
    IF Present(r, uf)
    THEN (IF Strip(Upper(Str(r[uf]))) \in valid_states THEN "True" ELSE "False")
    ELSE "False"

\* _check_valid_year (lines 312-321)
check_valid_year(r) ==
    IF Present(r, ano)
    THEN LET parsed == IntParse(r[ano])
         IN IF parsed.ok THEN (IF 2010 <= parsed.n /\ parsed.n <= 2030 THEN "True" ELSE "False")
            ELSE IF parsed.exc \in {"ValueError", "TypeError"} THEN "False"
            ELSE parsed.exc
    ELSE "False"

\* _check_positive_prices (lines 323-336)
check_positive_prices(r, index) ==
    LET fields == ColumnsWith(index, <<"p","r","e","c","o">>)
    IN FirstTrue([k \in DOMAIN fields |->
                    IF IsNa(r[fields[k]]) THEN "False"
                    ELSE validate_positive_number(r[fields[k]])])

\* lines 348-351: a check for each of ano, uf and the descricao columns that
\* the row has
ProcessorRequiredChecks(r, index) ==
    LET required_fields ==
            <<ano, uf>> \o ColumnsWith(index, <<"d","e","s","c","r","i","c","a","o">>)
        present == SelectSeq(required_fields, LAMBDA f : f \in DOMAIN r)
    IN [k \in DOMAIN present |->
            Outcome(~IsNa(r[present[k]]) /\ Strip(Str(r[present[k]])) # <<>>)]

\* the checks list of _calculate_quality_score, in order of evaluation
ProcessorChecks(r, index) ==
    <<CheckOf(check_valid_cnpj(r, index)), CheckOf(check_valid_state(r)),
      CheckOf(check_valid_year(r)), CheckOf(check_positive_prices(r, index))>>
        \o ProcessorRequiredChecks(r, index)

\* the column order of the tables that scored rows are taken from
ColumnOrder ==
    <<ano, uf, cnpj_fabricante, cnpj_fornecedor, cnpj_instituicao,
      qtd_itens_comprados, preco_unitario, preco_total, descricao_catmat, codigo_br>>

\* row.index: the columns of the row, in order
Index(r) == SelectSeq(ColumnOrder, LAMBDA c : c \in DOMAIN r)

calculate_quality_score ==
    /\ pc = "score"
    /\ validation_rules = NoRules
    /\ LET cs == UntilRaise(ProcessorChecks(row, Index(row)))
       IN /\ checks' = cs
          /\ score' = IF Raised(cs) THEN NoScore ELSE ScoreOf(cs)
          /\ pc' = IF Raised(cs) THEN "raised" ELSE "scored"
    /\ scorer' = "processor"
    /\ UNCHANGED <<row, validation_rules>>

----------------------------------------------------------------------------
(* Scoring one row: the rows and rule sets *)

SuperscriptCnpj == [k \in 1..14 |-> IF k = 14 THEN "sup2" ELSE KnownValidCnpj[k]]

\* the values a column of a scored row can hold
CellValues(c) ==
    IF c = ano THEN {I(2023), I(1999), T(<<"2","0","2","3">>), T(<<"a","b","c">>), INF, NA}
    ELSE IF c = uf THEN {T(<<"S","P">>), T(<<"s","p"," ">>), T(<<"X","X">>), T(<<" ">>), NA}
    ELSE IF c = cnpj_fabricante
    THEN {T(KnownValidCnpj), T(KnownInvalidCnpj), T(SuperscriptCnpj), NA}
    ELSE IF c = preco_unitario THEN {I(10), I(0), T(<<"a","b","c">>), NA}
    ELSE {T(<<"x">>), T(<<" ">>), NA}

ScoredColumns == {ano, uf, cnpj_fabricante, preco_unitario, descricao_catmat}

\* every row over a subset of the scored columns
ScoredRows ==
    UNION {{r \in [cols -> UNION {CellValues(c) : c \in cols}] :
                \A c \in cols : r[c] \in CellValues(c)} :
           cols \in SUBSET ScoredColumns}

\* the rule sets: without a required_fields entry, or with a list of names,
\* names the rows never hold and repeated names included
RuleSets ==
    {NoRules} \cup
    {[has_required |-> TRUE, required_fields |-> fields] :
        fields \in {<<>>, <<ano, uf>>, <<descricao_catmat, codigo_br>>, <<uf, uf>>}}

InitScore ==
    /\ pc = "score"
    /\ row \in ScoredRows
    /\ validation_rules \in RuleSets
    /\ scorer = "none"
    /\ checks = <<>>
    /\ score = NoScore
    /\ ResolveIdle
    /\ CnpjIdle
    /\ StandardizeIdle
    /\ processed = NoFiles
    /\ ConsolidateIdle
    /\ PipelineIdle
    /\ CleanerIdle

NextScore ==
    /\ \/ CalculateRowQualityScore
       \/ calculate_quality_score
    /\ UNCHANGED <<resolveVars, cnpjVars, standardizeVars, processed, consolidateVars, pipelineVars, cleanerVars>>

SpecScore == InitScore /\ [][NextScore]_vars

\* the fields of the row with a value, out of the CNPJ, state, year and
\* numeric fields
TypedFieldsPresent ==
    {f \in Range(cnpj_fields) \cup {uf, ano} \cup Range(numeric_fields) : Present(row, f)}

\* the required fields of the rule set that the row has
RequiredFieldsPresent ==
    IF validation_rules.has_required
    THEN {f \in Range(validation_rules.required_fields) : f \in DOMAIN row}
    ELSE {}

\* C5 as stated: the score of calculate_row_quality_score counts only checks
\* on fields that are present in the row, so the number of checks is the
\* number of required fields the row has plus the number of CNPJ, state, year
\* and numeric fields it has a value for, and the score is 100 * passed over
\* that number.
C5_AbsentFieldAddsNoCheck ==
    (pc = "scored" /\ scorer = "validators") =>
        LET attempted == Cardinality(RequiredFieldsPresent) + Cardinality(TypedFieldsPresent)
        IN /\ Len(checks) = attempted
           /\ score = (IF attempted = 0 THEN [num |-> 0, den |-> 1]
                       ELSE [num |-> 100 * Passed(checks), den |-> attempted])

\* C6 as stated: for every row and rule set the score function returns a
\* value in [0, 100], which is 100 when every attempted check passes and 0
\* when no check was attempted.
C6_ScoreReturnedInRange ==
    pc \in {"scored", "raised"} =>
        /\ pc = "scored"
        /\ 0 <= score.num /\ score.num <= 100 * score.den
        /\ (checks # <<>> /\ \A k \in DOMAIN checks : checks[k] = "pass")
                => score.num = 100 * score.den
        /\ checks = <<>> => score.num = 0

----------------------------------------------------------------------------
(* CSV files: pd.read_csv and DataFrame.to_csv.                            *)
(* A file is its stored encoding and separator, its header and its lines   *)
(* as fields of text, and the set of (encoding, separator) combinations    *)
(* under which reading it fails for a reason outside its text (I/O error,  *)
(* out of memory).  Fields hold no line break, and a double quote only     *)
(* around a whole field.                                                   *)

RECURSIVE Join(_, _)
Join(texts, sep) ==
    IF texts = <<>> THEN <<>>
    ELSE IF Len(texts) = 1 THEN texts[1]
    ELSE texts[1] \o <<sep>> \o Join(Tail(texts), sep)

RECURSIVE Split(_, _)
Split(text, sep) ==
    IF \A k \in DOMAIN text : text[k] # sep THEN <<text>>
    ELSE LET first == CHOOSE i \in DOMAIN text :
                          text[i] = sep /\ \A j \in 1..(i - 1) : text[j] # sep
         IN <<SubSeq(text, 1, first - 1)>>
                \o Split(SubSeq(text, first + 1, Len(text)), sep)

\* the fields of a line: a separator inside double quotes does not split, and
\* the quotes around a field are dropped
RECURSIVE Fields(_, _, _, _)
Fields(text, sep, current, quoted) ==
    IF text = <<>> THEN <<current>>
    ELSE IF Head(text) = "\"" /\ (quoted \/ current = <<>>)
    THEN Fields(Tail(text), sep, current, ~quoted)
    ELSE IF Head(text) = sep /\ ~quoted
    THEN <<current>> \o Fields(Tail(text), sep, <<>>, FALSE)
    ELSE Fields(Tail(text), sep, current \o <<Head(text)>>, quoted)

\* the characters outside ASCII that a file of the model can hold
NonAscii == {"a_tilde", "c_cedil"}

\* the two latin-1 characters that the UTF-8 bytes of a character read as
Utf8AsLatin1(c) ==
    IF c = "a_tilde" THEN <<"A_tilde", "pound">>
    ELSE IF c = "c_cedil" THEN <<"A_tilde", "sect">>
    ELSE <<c>>

\* the text that bytes stored in one encoding decode to in another
RECURSIVE Decode(_, _, _)
Decode(text, stored, read) ==
    IF text = <<>> THEN <<>>
    ELSE (IF stored = "utf-8" /\ read = "latin-1" THEN Utf8AsLatin1(Head(text))
          ELSE <<Head(text)>>) \o Decode(Tail(text), stored, read)

\* the lines of a file as text, header first
FileLines(file) ==
    <<Join(file.header, file.sep)>>
        \o [k \in 1..Len(file.lines) |-> Join(file.lines[k], file.sep)]

\* UnicodeDecodeError: bytes of latin-1 letters outside ASCII are not UTF-8
DecodeFails(file, config) ==
    /\ file.encoding = "latin-1"
    /\ config.encoding = "utf-8"
    /\ \E k \in DOMAIN FileLines(file) :
          \E j \in DOMAIN FileLines(file)[k] : FileLines(file)[k][j] \in NonAscii

\* the fields pd.read_csv splits the lines into; blank lines are skipped
ParsedLines(file, config) ==
    LET texts == [k \in 1..Len(file.lines) |->
                     Decode(Join(file.lines[k], file.sep), file.encoding, config.encoding)]
        kept == SelectSeq(texts, LAMBDA t : t # <<>>)
    IN [k \in DOMAIN kept |-> Fields(kept[k], config.sep, <<>>, FALSE)]

ParsedHeader(file, config) ==
    Fields(Decode(Join(file.header, file.sep), file.encoding, config.encoding),
           config.sep, <<>>, FALSE)

\* ParserError: a line with more fields than the header
TokenizeFails(file, config) ==
    \E k \in DOMAIN ParsedLines(file, config) :
        Len(ParsedLines(file, config)[k]) > Len(ParsedHeader(file, config))

\* whether pd.read_csv(file, **config) raises; a file without a line is an
\* EmptyDataError
ReadCsvRaises(file, config) ==
    \/ file.header = <<>> /\ file.lines = <<>>
    \/ config \in file.unreadable
    \/ DecodeFails(file, config)
    \/ TokenizeFails(file, config)

\* the texts pd.read_csv reads as a missing value
NaTexts ==
    {<<>>, <<"#","N","/","A">>, <<"#","N","/","A"," ","N","/","A">>, <<"#","N","A">>,
     <<"-","1",".","#","I","N","D">>, <<"-","1",".","#","Q","N","A","N">>,
     <<"-","N","a","N">>, <<"-","n","a","n">>, <<"1",".","#","I","N","D">>,
     <<"1",".","#","Q","N","A","N">>, <<"<","N","A",">">>, <<"N","/","A">>,
     <<"N","A">>, <<"N","U","L","L">>, <<"N","a","N">>, <<"N","o","n","e">>,
     <<"n","/","a">>, <<"n","a","n">>, <<"n","u","l","l">>}

TrueTexts == {<<"T","r","u","e">>, <<"T","R","U","E">>, <<"t","r","u","e">>}
FalseTexts == {<<"F","a","l","s","e">>, <<"F","A","L","S","E">>, <<"f","a","l","s","e">>}

\* the field texts read as an integer and as a float
IsCsvInteger(text) ==
    Unsigned(text) # <<>> /\ \A k \in DOMAIN Unsigned(text) : Unsigned(text)[k] \in AsciiDigits

IsCsvFloat(text) ==
    LET body == Unsigned(text)
    IN \/ /\ \A k \in DOMAIN body : body[k] \in AsciiDigits \cup {"."}
          /\ Cardinality({k \in DOMAIN body : body[k] = "."}) = 1
          /\ \E k \in DOMAIN body : body[k] \in AsciiDigits
       \/ Lower(text) \in {<<"i","n","f">>, <<"i","n","f","i","n","i","t","y">>}

\* trailing zeros removed
RECURSIVE TrimZeros(_)
TrimZeros(digits) ==
    IF digits # <<>> /\ digits[Len(digits)] = "0"
    THEN TrimZeros(SubSeq(digits, 1, Len(digits) - 1))
    ELSE digits

\* the float a text of digits and at most one "." stands for
FloatValue(text) ==
    IF Lower(text) \in {<<"i","n","f">>, <<"i","n","f","i","n","i","t","y">>} THEN INF
    ELSE LET body == Unsigned(text)
             parts == Split(body, ".")
             whole == DecimalValue(parts[1])
             frac == IF Len(parts) > 1 THEN TrimZeros(parts[2]) ELSE <<>>
             neg == Head(text) = "-"
         IN IF frac = <<>> THEN I(IF neg THEN 0 - whole ELSE whole)
            ELSE Dec(neg, whole, frac)

\* the values of one column: pd.read_csv infers the type from all its fields
InferColumn(texts) ==
    LET present == {k \in DOMAIN texts : texts[k] \notin NaTexts}
    IN IF \A k \in present : IsCsvInteger(texts[k]) \/ IsCsvFloat(texts[k])
       THEN [k \in DOMAIN texts |-> IF k \in present THEN FloatValue(texts[k]) ELSE NA]
       ELSE IF present = DOMAIN texts /\ \A k \in present : texts[k] \in TrueTexts \cup FalseTexts
       THEN [k \in DOMAIN texts |-> B(texts[k] \in TrueTexts)]
       ELSE [k \in DOMAIN texts |-> IF k \in present THEN T(texts[k]) ELSE NA]

\* the table pd.read_csv(file, **config) returns when it does not raise; a
\* line with fewer fields than the header is filled with missing values
ReadCsv(file, config) ==
    LET cols == ParsedHeader(file, config)
        lines == ParsedLines(file, config)
        field(k, n) == IF n <= Len(lines[k]) THEN lines[k][n] ELSE <<>>
        column(n) == InferColumn([k \in DOMAIN lines |-> field(k, n)])
        values == [n \in DOMAIN cols |-> column(n)]
    IN [cols |-> cols,
        rows |-> [k \in DOMAIN lines |->
                    [c \in Range(cols) |->
                        values[CHOOSE n \in DOMAIN cols : cols[n] = c][k]]]]

\* the field DataFrame.to_csv writes for a value: its text, in double quotes
\* when the text holds the separator
CsvField(v) ==
    IF IsNa(v) THEN <<>>
    ELSE IF \E k \in DOMAIN Str(v) : Str(v)[k] = ","
    THEN <<"\"">> \o Str(v) \o <<"\"">>
    ELSE Str(v)

\* the file df.to_csv(path, index=False, encoding='utf-8', sep=',') writes
ToCsv(df) ==
    [encoding |-> "utf-8", sep |-> ",", header |-> df.cols,
     lines |-> [k \in DOMAIN df.rows |-> [n \in DOMAIN df.cols |-> CsvField(df.rows[k][df.cols[n]])]],
     unreadable |-> {}]

----------------------------------------------------------------------------
(* SimpleStandardizationProcessor.load_raw_csv (processor.py lines 23-62)  *)

primary_config == [encoding |-> "latin-1", sep |-> ";"]

\* the fallbacks in another order
fallback_configs_commas_first ==
    <<[encoding |-> "latin-1", sep |-> ","],
      [encoding |-> "utf-8", sep |-> ";"],
      [encoding |-> "utf-8", sep |-> ","]>>

fallback_configs ==
    <<[encoding |-> "utf-8", sep |-> ";"],
      [encoding |-> "latin-1", sep |-> ","],
      [encoding |-> "utf-8", sep |-> ","]>>

\* the reads made until one does not raise: the primary combination, then
\* the fallbacks in order
RECURSIVE ReadsUntilLoaded(_, _)
ReadsUntilLoaded(file, configs) ==
    IF configs = <<>> THEN <<>>
    ELSE IF ReadCsvRaises(file, Head(configs)) THEN <<Head(configs)>> \o ReadsUntilLoaded(file, Tail(configs))
    ELSE <<Head(configs)>>

\* load_raw_csv without the raise of line 62: the table stays empty and the
\* caller goes on
LoadContinuingAfterFailure ==
    /\ pc = "load"
    /\ LET made == ReadsUntilLoaded(input_file, <<primary_config>> \o fallback_configs)
           last == made[Len(made)]
       IN /\ attempts' = made
          /\ pc' = "clean"
          /\ df_raw' = IF ReadCsvRaises(input_file, last) THEN df_raw
                       ELSE ReadCsv(input_file, last)
    /\ UNCHANGED <<input_file, output_stem, df_clean, df_validated, report, processed>>

load_raw_csv ==
    /\ pc = "load"
    /\ LET made == ReadsUntilLoaded(input_file, <<primary_config>> \o fallback_configs)
           last == made[Len(made)]
       IN /\ attempts' = made
          /\ IF ReadCsvRaises(input_file, last)
             THEN pc' = "raised" /\ df_raw' = df_raw
             ELSE pc' = "clean" /\ df_raw' = ReadCsv(input_file, last)
    /\ UNCHANGED <<input_file, output_stem, df_clean, df_validated, report, processed>>

----------------------------------------------------------------------------
(* SimpleStandardizationProcessor.clean_dataframe (lines 64-98, 179-270)   *)

\* str.replace(old, new) for a non-empty old
RECURSIVE ReplaceAll(_, _, _)
ReplaceAll(text, old, new) ==
    IF Len(text) < Len(old) THEN text
    ELSE IF SubSeq(text, 1, Len(old)) = old
    THEN new \o ReplaceAll(SubSeq(text, Len(old) + 1, Len(text)), old, new)
    ELSE <<Head(text)>> \o ReplaceAll(Tail(text), old, new)

\* the replacements of a dict applied one after the other, in dict order
RECURSIVE ReplaceEach(_, _)
ReplaceEach(text, pairs) ==
    IF pairs = <<>> THEN text
    ELSE ReplaceEach(ReplaceAll(text, Head(pairs)[1], Head(pairs)[2]), Tail(pairs))

\* line 181: every key is U+00C3 followed by one more character
char_map ==
    <<<<<<"A_tilde", "pound">>, <<"a">>>>, <<<<"A_tilde", "iexcl">>, <<"a">>>>,
      <<<<"A_tilde", "cent">>, <<"a">>>>, <<<<"A_tilde", "nbsp">>, <<"a">>>>,
      <<<<"A_tilde", "copy">>, <<"e">>>>, <<<<"A_tilde", "ordf">>, <<"e">>>>,
      <<<<"A_tilde", "shy">>, <<"i">>>>, <<<<"A_tilde", "sup3">>, <<"o">>>>,
      <<<<"A_tilde", "acute">>, <<"o">>>>, <<<<"A_tilde", "micro">>, <<"o">>>>,
      <<<<"A_tilde", "ordm">>, <<"u">>>>, <<<<"A_tilde", "sect">>, <<"c">>>>>>

\* the characters the pattern \w matches
IsWord(c) ==
    \/ c \in Range(LowerLetters) \cup Range(UpperLetters) \cup AsciiDigits
    \/ c \in {"_", "c_cedil", "u_uml", "ar3", "sup2", "sup3", "ordf", "ordm", "micro"}

\* re.sub(r'_+', '_', text)
RECURSIVE Squeeze(_)
Squeeze(text) ==
    IF Len(text) < 2 THEN text
    ELSE IF text[1] = "_" /\ text[2] = "_" THEN Squeeze(Tail(text))
    ELSE <<Head(text)>> \o Squeeze(Tail(text))

\* str.strip('_')
RECURSIVE StripLeftUnderscores(_)
StripLeftUnderscores(text) ==
    IF text # <<>> /\ Head(text) = "_" THEN StripLeftUnderscores(Tail(text)) ELSE text

StripUnderscores(text) ==
    Reverse(StripLeftUnderscores(Reverse(StripLeftUnderscores(text))))

\* lines 186-193: the new name of one column
CleanColumnName(col) ==
    LET lowered == Strip(Lower(col))
        mapped == ReplaceEach(lowered, char_map)
        subbed == [k \in DOMAIN mapped |-> IF IsWord(mapped[k]) THEN mapped[k] ELSE "_"]
    IN StripUnderscores(Squeeze(subbed))

\* _standardize_column_names: the tables of the model keep their columns
\* distinct under the new names
standardize_column_names(df) ==
    LET renamed == [n \in DOMAIN df.cols |-> CleanColumnName(df.cols[n])]
        old(c) == df.cols[CHOOSE n \in DOMAIN df.cols : renamed[n] = c]
    IN [cols |-> renamed,
        rows |-> [k \in DOMAIN df.rows |-> [c \in Range(renamed) |-> df.rows[k][old(c)]]]]

\* config.encoding_fixes (settings.py lines 318-344): the entries whose keys
\* are texts of the model's characters, in dict order
encoding_fixes ==
    <<<<<<"A_tilde", "pound">>, <<"a_tilde">>>>, <<<<"A_tilde", "sect">>, <<"c_cedil">>>>,
      <<<<"A_tilde">>, <<"I_acute">>>>, <<<<"A_tilde", "permil">>, <<"E_acute">>>>,
      <<<<"repl">>, <<>>>>, <<<<"A_circ">>, <<>>>>>>

\* _fix_encoding
fix_encoding(v) == IF "t" \in DOMAIN v THEN T(ReplaceEach(v.t, encoding_fixes)) ELSE v

\* _standardize_cnpj: the pattern \D removes what is no decimal digit
standardize_cnpj(v) ==
    IF "t" \in DOMAIN v
    THEN LET digits_only == SelectSeq(v.t, IsDecimal)
         IN IF Len(digits_only) = 14 THEN T(digits_only) ELSE NA
    ELSE NA

\* ''.join(texts)
RECURSIVE Flatten(_)
Flatten(texts) == IF texts = <<>> THEN <<>> ELSE Head(texts) \o Flatten(Tail(texts))

\* lines 251-265: the text handed to float()
CurrencyText(text) ==
    LET clean_value == SelectSeq(text, LAMBDA c : c \notin {"R", "$"} \cup Whitespace)
        has(c) == \E k \in DOMAIN clean_value : clean_value[k] = c
        parts == Split(clean_value, ".")
        thousands_part == Flatten(SubSeq(parts, 1, Len(parts) - 1))
        decimal_split == Split(parts[Len(parts)], ",")
    IN IF has(",") /\ has(".")
       THEN (IF Len(decimal_split) = 2
             THEN thousands_part \o decimal_split[1] \o <<".">> \o decimal_split[2]
             ELSE clean_value)
       ELSE IF has(",") THEN ReplaceAll(clean_value, <<",">>, <<".">>)
       ELSE clean_value

\* _clean_currency
clean_currency(v) ==
    IF "t" \in DOMAIN v
    THEN LET clean_value == CurrencyText(v.t)
         IN IF Strip(clean_value) # <<>> /\ IsFloatNumeral(clean_value)
            THEN FloatValue(Strip(clean_value))
            ELSE IF IsFloatInfinity(clean_value) THEN INF
            ELSE NA
    ELSE NA

text_keywords ==
    <<<<"d","e","s","c","r","i","c","a","o">>, <<"f","a","b","r","i","c","a","n","t","e">>,
      <<"f","o","r","n","e","c","e","d","o","r">>,
      <<"i","n","s","t","i","t","u","i","c","a","o">>,
      <<"m","u","n","i","c","i","p","i","o">>>>

\* steps 2 to 4 on one cell of column col
CleanCell(col, v) ==
    LET is_text == \E k \in DOMAIN text_keywords : Contains(Lower(col), text_keywords[k])
        is_cnpj == Contains(Lower(col), <<"c","n","p","j">>)
        is_currency == Contains(Lower(col), <<"p","r","e","c","o">>)
        fixed == IF is_text THEN fix_encoding(v) ELSE v
        digits == IF is_cnpj THEN standardize_cnpj(fixed) ELSE fixed
    IN IF is_currency THEN clean_currency(digits) ELSE digits

\* lines 77-98: the table clean_dataframe returns
ProcessorCleaned(df) ==
    LET named == standardize_column_names(df)
    IN [cols |-> named.cols,
        rows |-> [k \in DOMAIN named.rows |->
                    [c \in Range(named.cols) |-> CleanCell(c, named.rows[k][c])]]]

clean_dataframe ==
    /\ pc = "clean"
    /\ df_clean' = ProcessorCleaned(df_raw)
    /\ pc' = "validate"
    /\ UNCHANGED <<input_file, output_stem, attempts, df_raw, df_validated, report, processed>>

----------------------------------------------------------------------------
(* SimpleStandardizationProcessor.validate_dataframe (lines 100-126)       *)

has_valid_cnpj == <<"h","a","s","_","v","a","l","i","d","_","c","n","p","j">>
has_valid_state == <<"h","a","s","_","v","a","l","i","d","_","s","t","a","t","e">>
has_valid_year == <<"h","a","s","_","v","a","l","i","d","_","y","e","a","r">>
has_positive_prices ==
    <<"h","a","s","_","p","o","s","i","t","i","v","e","_","p","r","i","c","e","s">>
quality_score == <<"q","u","a","l","i","t","y","_","s","c","o","r","e">>

\* a quality score as a cell value
Q(fraction) == [q |-> fraction]

\* df[col] = values: a new column goes last, an existing one keeps its place
SetColumn(df, col, values) ==
    [cols |-> IF col \in Range(df.cols) THEN df.cols ELSE df.cols \o <<col>>,
     rows |-> [k \in DOMAIN df.rows |->
                 [c \in DOMAIN df.rows[k] \cup {col} |->
                     IF c = col THEN values[k] ELSE df.rows[k][c]]]]

\* the column a row-wise check yields, from its "True"/"False" results
Flags(results) == [k \in DOMAIN results |-> B(results[k] = "True")]

\* whether some row made the check raise
AnyRaises(results) == \E k \in DOMAIN results : results[k] \notin {"True", "False"}

\* lines 115-118: each flag is computed on the table with the flags before it
WithValidCnpj(df) ==
    SetColumn(df, has_valid_cnpj,
              Flags([k \in DOMAIN df.rows |-> check_valid_cnpj(df.rows[k], df.cols)]))

WithValidState(df) ==
    SetColumn(df, has_valid_state,
              Flags([k \in DOMAIN df.rows |-> check_valid_state(df.rows[k])]))

WithValidYear(df) ==
    SetColumn(df, has_valid_year,
              Flags([k \in DOMAIN df.rows |-> check_valid_year(df.rows[k])]))

WithPositivePrices(df) ==
    SetColumn(df, has_positive_prices,
              Flags([k \in DOMAIN df.rows |-> check_positive_prices(df.rows[k], df.cols)]))

WithFlags(df) == WithPositivePrices(WithValidYear(WithValidState(WithValidCnpj(df))))

\* line 121
WithQualityScore(df) ==
    SetColumn(df, quality_score,
              [k \in DOMAIN df.rows |-> Q(ScoreOf(ProcessorChecks(df.rows[k], df.cols)))])

\* whether a check raises on some row of the table it is applied to
ValidateRaises(df) ==
    \/ AnyRaises([k \in DOMAIN df.rows |-> check_valid_cnpj(df.rows[k], df.cols)])
    \/ AnyRaises([k \in DOMAIN df.rows |-> check_valid_year(df.rows[k])])
    \/ \E k \in DOMAIN df.rows : Raised(UntilRaise(ProcessorChecks(WithFlags(df).rows[k],
                                                                  WithFlags(df).cols)))

validate_dataframe ==
    /\ pc = "validate"
    /\ IF ValidateRaises(df_clean)
       THEN pc' = "raised" /\ df_validated' = df_validated
       ELSE pc' = "emit" /\ df_validated' = WithQualityScore(WithFlags(df_clean))
    /\ UNCHANGED <<input_file, output_stem, attempts, df_raw, df_clean, report, processed>>

----------------------------------------------------------------------------
(* SimpleStandardizationProcessor.standardize_file: the output (lines      *)
(* 149-176)                                                                *)

\* lines 150-151
business_columns(cols) ==
    SelectSeq(cols, LAMBDA col :
        ~(StartsWith(col, <<"q","u","a","l","i","t","y","_">>)
            \/ StartsWith(col, <<"h","a","s","_","v","a","l","i","d","_">>)))

\* the sum and the mean of the quality scores, as fractions
RECURSIVE SumScores(_)
SumScores(scores) ==
    IF scores = <<>> THEN [num |-> 0, den |-> 1]
    ELSE LET rest == SumScores(Tail(scores))
         IN [num |-> Head(scores).num * rest.den + rest.num * Head(scores).den,
             den |-> Head(scores).den * rest.den]

\* df['quality_score'].mean(): missing for a table without rows
MeanScore(df) ==
    IF df.rows = <<>> THEN NA
    ELSE LET total == SumScores([k \in DOMAIN df.rows |-> df.rows[k][quality_score].q])
         IN Q([num |-> total.num, den |-> total.den * Len(df.rows)])

\* the directory after a file is written under a name
FileWritten(dir, stem, file) ==
    [name \in DOMAIN dir \cup {stem} |-> IF name = stem THEN file ELSE dir[name]]

emit ==
    /\ pc = "emit"
    /\ LET df_output == Project(df_validated, business_columns(df_validated.cols))
       IN /\ processed' = FileWritten(processed, output_stem, ToCsv(df_output))
          /\ report' =
                [returned |-> TRUE,
                 rows_input |-> Len(df_raw.rows),
                 rows_output |-> Len(df_output.rows),
                 columns_input |-> Len(df_raw.cols),
                 columns_output |-> Len(df_output.cols),
                 average_quality_score |-> MeanScore(df_validated),
                 high_quality_rows |->
                    Cardinality({k \in DOMAIN df_validated.rows :
                        LET s == df_validated.rows[k][quality_score].q
                        IN s.num >= 80 * s.den})]
    /\ pc' = "emitted"
    /\ UNCHANGED <<input_file, output_stem, attempts, df_raw, df_clean, df_validated>>

otherThanStandardize ==
    <<resolveVars, cnpjVars, scoreVars, consolidateVars, pipelineVars, cleanerVars>>

\* lines 145-156: load, clean, validate, write
standardize_file ==
    \/ load_raw_csv /\ UNCHANGED otherThanStandardize
    \/ clean_dataframe /\ UNCHANGED otherThanStandardize
    \/ validate_dataframe /\ UNCHANGED otherThanStandardize
    \/ emit /\ UNCHANGED otherThanStandardize

----------------------------------------------------------------------------
(* The specification of standardize_file on bounded raw files *)

\* rows of one raw file
MaxFileRows == 2

AllConfigs == {primary_config} \cup Range(fallback_configs)

RawHeader == <<<<"A","n","o">>, <<"C","o","d","i","g","o"," ","B","R">>, <<"U","F">>>>

\* the lines of a raw file of a year: the year, a product code, a state or
\* nothing
RawLines(year) ==
    {<<Digits(year), <<"A">>, <<"S","P">>>>,
     <<Digits(year), <<"c_cedil">>, <<"S","P">>>>,
     <<Digits(year), <<"A">>, <<>>>>}

\* the raw files of a year that reading fails on under the combinations in
\* failing
RawFiles(year, failing) ==
    UNION {{[encoding |-> config.encoding, sep |-> config.sep, header |-> RawHeader,
             lines |-> lines, unreadable |-> failing] :
                config \in AllConfigs, lines \in [1..n -> RawLines(year)]} :
           n \in 0..MaxFileRows}

year_stem == <<"2","0","2","3">>
processed_stem == <<"2","0","2","3","_","p","r","o","c","e","s","s","e","d">>

InitStandardize ==
    /\ pc = "load"
    /\ \E failing \in SUBSET AllConfigs : input_file \in RawFiles(2023, failing)
    /\ output_stem = year_stem
    /\ attempts = <<>>
    /\ df_raw = NoTable
    /\ df_clean = NoTable
    /\ df_validated = NoTable
    /\ report = NoReport
    /\ processed = NoFiles
    /\ ResolveIdle
    /\ CnpjIdle
    /\ ScoreIdle
    /\ ConsolidateIdle
    /\ PipelineIdle
    /\ CleanerIdle

NextStandardize == standardize_file

SpecStandardize == InitStandardize /\ [][NextStandardize]_vars

\* the columns validate_dataframe adds (lines 115-121)
AnnotationColumns ==
    {quality_score, has_valid_cnpj, has_valid_state, has_valid_year, has_positive_prices}

\* C2: in the file standardize_file has written, no column is one of the
\* quality annotations (quality_score, has_valid_cnpj, has_valid_state,
\* has_valid_year, has_positive_prices) and every column is a column of the
\* cleaned table.
C2_NoAnnotationColumnWritten ==
    pc = "emitted" =>
        \A c \in Range(processed[output_stem].header) :
            c \notin AnnotationColumns /\ c \in Range(df_clean.cols)

\* C7: load_raw_csv reads with (latin-1, ';'), (utf-8, ';'), (latin-1, ','),
\* (utf-8, ',') in this order: the reads made are a prefix of the list, every
\* read before the last one raised, the table returned is the one of the last
\* read, which did not raise, and load_raw_csv raises only after four reads
\* that all raised.
C7_LoadTriesInOrder ==
    pc \notin {"load"} =>
        LET order == <<[encoding |-> "latin-1", sep |-> ";"],
                       [encoding |-> "utf-8", sep |-> ";"],
                       [encoding |-> "latin-1", sep |-> ","],
                       [encoding |-> "utf-8", sep |-> ","]>>
            n == Len(attempts)
        IN /\ n \in 1..4
           /\ attempts = SubSeq(order, 1, n)
           /\ \A k \in 1..(n - 1) : ReadCsvRaises(input_file, attempts[k])
           /\ pc # "raised" =>
                 /\ ~ReadCsvRaises(input_file, attempts[n])
                 /\ df_raw = ReadCsv(input_file, attempts[n])
           /\ pc = "raised" =>
                 /\ n = 4
                 /\ ReadCsvRaises(input_file, attempts[n])

\* a file that the third read loads, after the first two raised
C7_Witness ==
    /\ pc = "clean"
    /\ Len(attempts) = 3
    /\ df_raw = ReadCsv(input_file, [encoding |-> "latin-1", sep |-> ","])
    /\ df_raw.rows # <<>>

----------------------------------------------------------------------------
(* HealthDataConsolidator.load_standardized_files (consolidators.py lines  *)
(* 34-69)                                                                  *)

\* the characters of file and column names, in code point order
CharOrder ==
    <<" ", ",", ".", "0", "1", "2", "3", "4", "5", "6", "7", "8", "9",
      "A", "B", "C", "D", "E", "F", "G", "H", "I", "J", "K", "L", "M",
      "N", "O", "P", "Q", "R", "S", "T", "U", "V", "W", "X", "Y", "Z", "_",
      "a", "b", "c", "d", "e", "f", "g", "h", "i", "j", "k", "l", "m",
      "n", "o", "p", "q", "r", "s", "t", "u", "v", "w", "x", "y", "z",
      "pound", "sect", "A_tilde", "a_tilde", "c_cedil">>

Code(c) == CHOOSE n \in DOMAIN CharOrder : CharOrder[n] = c

\* a < b for two str
RECURSIVE TextLess(_, _)
TextLess(a, b) ==
    IF b = <<>> THEN FALSE
    ELSE IF a = <<>> THEN TRUE
    ELSE IF Head(a) = Head(b) THEN TextLess(Tail(a), Tail(b))
    ELSE Code(Head(a)) < Code(Head(b))

\* sorted(names) for names that end alike (file names in ".csv") or as they are
RECURSIVE SortedTexts(_, _)
SortedTexts(names, ending) ==
    IF names = {} THEN <<>>
    ELSE LET first == CHOOSE a \in names :
                          \A b \in names \ {a} : TextLess(a \o ending, b \o ending)
         IN <<first>> \o SortedTexts(names \ {first}, ending)

\* pd.read_csv(csv_file, encoding='utf-8'): the separator is the default
standardized_config == [encoding |-> "utf-8", sep |-> ","]

\* dataframes[year] = df: a year already loaded keeps its place in the dict
DictSet(entries, entry) ==
    IF \E k \in DOMAIN entries : entries[k].year = entry.year
    THEN [k \in DOMAIN entries |->
            IF entries[k].year = entry.year THEN entry ELSE entries[k]]
    ELSE Append(entries, entry)

\* whether the body of the try block (lines 55-63) completes for a file
Loadable(dir, stem) ==
    IntParse(T(stem)).ok /\ ~ReadCsvRaises(dir[stem], standardized_config)

\* a loop that ends at the first file that fails
RECURSIVE LoadUntilFailure(_, _, _)
LoadUntilFailure(dir, stems, loaded) ==
    IF stems = <<>> \/ ~Loadable(dir, Head(stems)) THEN loaded
    ELSE LoadUntilFailure(dir, Tail(stems),
            DictSet(loaded, [year |-> IntParse(T(Head(stems))).n,
                             df |-> ReadCsv(dir[Head(stems)], standardized_config)]))

\* lines 53-66: the loop over the files in sorted order; a file that fails is
\* logged and the loop goes on
RECURSIVE LoadEach(_, _, _)
LoadEach(dir, stems, loaded) ==
    IF stems = <<>> THEN loaded
    ELSE LoadEach(dir, Tail(stems),
            IF Loadable(dir, Head(stems))
            THEN DictSet(loaded, [year |-> IntParse(T(Head(stems))).n,
                                  df |-> ReadCsv(dir[Head(stems)], standardized_config)])
            ELSE loaded)

otherThanLoad ==
    <<cnpjVars, scoreVars, standardizeVars, processed, consolidateVars, pipelineVars, cleanerVars,
      strategy, sorted_df, consolidated_df, final_df, warnings>>

load_standardized_files ==
    /\ pc = "consolidate"
    /\ IF DOMAIN processed = {}
       THEN pc' = "raised" /\ dataframes' = dataframes
       ELSE /\ pc' = "validate_schema"
            /\ dataframes' =
                 LoadEach(processed, SortedTexts(DOMAIN processed, <<".","c","s","v">>), <<>>)
    /\ UNCHANGED otherThanLoad

----------------------------------------------------------------------------
(* validate_schema_consistency (lines 71-127) and standardize_schemas      *)
(* (lines 129-171)                                                         *)

unified_schema ==
    <<ano, codigo_br, descricao_catmat, unidade_fornecimento, generico, anvisa, compra,
      modalidade_compra, insercao, tipo_compra, fabricante, cnpj_fabricante, fornecedor,
      cnpj_fornecedor, nome_instituicao, cnpj_instituicao, municipio_instituicao, uf,
      qtd_itens_comprados, preco_unitario, preco_total>>

AllColumns(dfs) == UNION {Range(dfs[k].df.cols) : k \in DOMAIN dfs}

\* the columns of the first table only
ColumnsOfFirst(dfs) == Range(dfs[1].df.cols)

CommonColumns(dfs) == {c \in AllColumns(dfs) : \A k \in DOMAIN dfs : c \in Range(dfs[k].df.cols)}

\* lines 86-116 for a non-empty dict; the rate is a fraction
SchemaReport(dfs) ==
    [returned |-> TRUE,
     total_unique_columns |-> Cardinality(AllColumns(dfs)),
     common_columns |-> Cardinality(CommonColumns(dfs)),
     common_column_list |-> SortedTexts(CommonColumns(dfs), <<>>),
     consistency_rate |->
        IF AllColumns(dfs) = {} THEN [num |-> 0, den |-> 1]
        ELSE [num |-> 100 * Cardinality(CommonColumns(dfs)),
              den |-> Cardinality(AllColumns(dfs))],
     file_specific_columns |->
        {dfs[k].year : k \in {j \in DOMAIN dfs :
                                Range(dfs[j].df.cols) \ CommonColumns(dfs) # {}}}]

\* lines 83-84: the report for an empty dict has no consistency_rate
ErrorReport == [returned |-> TRUE, error |-> TRUE]

otherThanSchema ==
    <<cnpjVars, scoreVars, standardizeVars, processed, resolveVars, unified,
      duplicate_detection, final_validation, saved_files, writes,
      consolidation_report,
      pipelineVars, cleanerVars>>

\* step 2 of consolidate_all_data and the test of step 3 (lines 439-442):
\* reading consistency_rate from the report for an empty dict is a KeyError
validate_schema_consistency ==
    /\ pc = "validate_schema"
    /\ IF dataframes = <<>>
       THEN schema_validation' = ErrorReport /\ pc' = "raised"
       ELSE /\ schema_validation' = SchemaReport(dataframes)
            /\ pc' = IF SchemaReport(dataframes).consistency_rate.num
                            < 100 * SchemaReport(dataframes).consistency_rate.den
                     THEN "standardize_schemas" ELSE "detect"
    /\ UNCHANGED otherThanSchema

\* lines 147-152
TargetColumns(dfs) ==
    IF unified THEN unified_schema ELSE SortedTexts(AllColumns(dfs), <<>>)

\* a reconciliation that appends the missing columns and keeps the order of
\* the table
StandardizedAppending(df, target_columns) ==
    LET cols == df.cols \o SelectSeq(target_columns, LAMBDA c : c \notin Range(df.cols))
    IN [cols |-> cols,
        rows |-> [k \in DOMAIN df.rows |-> Reindex(df.rows[k], cols)]]

\* a reconciliation that keeps, after the target columns, the columns of the
\* table that the target does not have
StandardizedKeepingOthers(df, target_columns) ==
    LET cols == target_columns \o SelectSeq(df.cols, LAMBDA c : c \notin Range(target_columns))
    IN [cols |-> cols,
        rows |-> [k \in DOMAIN df.rows |-> Reindex(df.rows[k], cols)]]

\* lines 156-168 for one table
Standardized(df, target_columns) ==
    [cols |-> target_columns,
     rows |-> [k \in DOMAIN df.rows |-> Reindex(df.rows[k], target_columns)]]

otherThanFrames ==
    <<cnpjVars, scoreVars, standardizeVars, processed, consolidateVars, pipelineVars, cleanerVars,
      strategy, sorted_df, consolidated_df, final_df, warnings>>

standardize_schemas ==
    /\ pc = "standardize_schemas"
    /\ dataframes' =
         [k \in DOMAIN dataframes |->
            [year |-> dataframes[k].year,
             df |-> Standardized(dataframes[k].df, TargetColumns(dataframes))]]
    /\ pc' = "detect"
    /\ UNCHANGED otherThanFrames

----------------------------------------------------------------------------
(* detect_duplicates_across_years (lines 173-231)                          *)

\* lines 187-190: the table of a year with its source year
WithSourceYear(entry) ==
    WithColumn(entry.df, source_year, [k \in DOMAIN entry.df.rows |-> I(entry.year)])

\* lines 198-199
DetectKeyColumns(cols) ==
    SelectSeq(cols, LAMBDA c : c \notin {ano, source_year} /\ ~StartsWith(c, <<"_">>))

\* line 202: duplicated(subset=key_columns, keep=False); missing values are
\* equal to each other
DuplicateMask(df, subset) ==
    {k \in DOMAIN df.rows :
        \E j \in DOMAIN df.rows \ {k} : KeyOf(df.rows[j], subset) = KeyOf(df.rows[k], subset)}

\* line 216: groupby(key_columns) leaves out the rows with a missing key value
Grouped(df, subset, mask) ==
    {k \in mask : \A c \in Range(subset) : ~IsNa(df.rows[k][c])}

DuplicateGroup(df, subset, members, k) ==
    {j \in members : KeyOf(df.rows[j], subset) = KeyOf(df.rows[k], subset)}

\* lines 205-225 for a combined table with rows
DuplicateReport(df) ==
    LET subset == DetectKeyColumns(df.cols)
        mask == DuplicateMask(df, subset)
        members == Grouped(df, subset, mask)
        years(k) == {df.rows[j][source_year] : j \in DuplicateGroup(df, subset, members, k)}
    IN [returned |-> TRUE,
        total_records |-> Len(df.rows),
        total_duplicates |-> Cardinality(mask),
        duplicate_percentage |-> [num |-> 100 * Cardinality(mask), den |-> Len(df.rows)],
        unique_duplicate_groups |->
            Cardinality({KeyOf(df.rows[k], subset) : k \in members}),
        cross_year_duplicates |-> Cardinality({k \in members : Cardinality(years(k)) > 1}),
        same_year_duplicates |-> Cardinality({k \in members : Cardinality(years(k)) = 1})]

\* line 193
NoDuplicateReport == [returned |-> TRUE, total_duplicates |-> 0]

otherThanDetect ==
    <<cnpjVars, scoreVars, standardizeVars, processed, resolveVars, unified,
      schema_validation, final_validation, saved_files, writes,
      consolidation_report,
      pipelineVars, cleanerVars>>

\* step 4; a combined table without rows divides by zero at line 208
detect_duplicates_across_years ==
    /\ pc = "detect"
    /\ IF dataframes = <<>>
       THEN duplicate_detection' = NoDuplicateReport /\ pc' = "resolve"
       ELSE LET combined_df ==
                    Concat([k \in 1..Len(dataframes) |-> WithSourceYear(dataframes[k])])
            IN IF combined_df.rows = <<>>
               THEN duplicate_detection' = duplicate_detection /\ pc' = "raised"
               ELSE duplicate_detection' = DuplicateReport(combined_df) /\ pc' = "resolve"
    /\ UNCHANGED otherThanDetect

----------------------------------------------------------------------------
(* validate_consolidated_data (lines 295-342), save_consolidated_data      *)
(* (lines 344-382), generate_consolidation_report (lines 384-416)          *)

\* the cells of a table that hold a value
Filled(df) ==
    {<<k, c>> \in (DOMAIN df.rows) \X Range(df.cols) : ~IsNa(df.rows[k][c])}

\* df.duplicated(): the rows equal to an earlier row
Duplicated(df) ==
    {k \in DOMAIN df.rows : \E j \in 1..(k - 1) : df.rows[j] = df.rows[k]}

\* lines 307-331 for a table with rows and columns
ValidationReport(df) ==
    LET cells == Len(df.rows) * Len(df.cols)
    IN [returned |-> TRUE,
        total_rows |-> Len(df.rows),
        total_columns |-> Len(df.cols),
        year_distribution |->
            IF ano \in Range(df.cols)
            THEN [y \in {df.rows[k][ano] : k \in DOMAIN df.rows} \ {NA} |->
                    Cardinality({k \in DOMAIN df.rows : df.rows[k][ano] = y})]
            ELSE <<>>,
        completeness_by_column |->
            [c \in Range(df.cols) |->
                [num |-> 100 * Cardinality({k \in DOMAIN df.rows : ~IsNa(df.rows[k][c])}),
                 den |-> Len(df.rows)]],
        overall_completeness |-> [num |-> 100 * Cardinality(Filled(df)), den |-> cells],
        duplicate_count |-> Cardinality(Duplicated(df)),
        has_null_values |-> Cardinality(Filled(df)) < cells]

otherThanValidation ==
    <<cnpjVars, scoreVars, standardizeVars, processed, resolveVars, unified,
      schema_validation, duplicate_detection, saved_files, writes,
      consolidation_report,
      pipelineVars, cleanerVars>>

\* step 6; a table without columns divides by zero at line 322
validate_consolidated_data ==
    /\ pc = "resolved"
    /\ IF final_df.cols = <<>>
       THEN final_validation' = final_validation /\ pc' = "raised"
       ELSE final_validation' = ValidationReport(final_df) /\ pc' = "save"
    /\ UNCHANGED otherThanValidation

otherThanSaved ==
    <<cnpjVars, scoreVars, standardizeVars, processed, unified, schema_validation,
      duplicate_detection, final_validation, consolidation_report, pipelineVars, cleanerVars,
      dataframes, strategy, sorted_df, consolidated_df, final_df>>

\* datetime.now().strftime("%Y%m%d_%H%M%S") at line 360
Timestamps == {"20261101_000000", "20261101_000001"}

\* a save in which a failure of to_parquet is raised like one of to_csv
SavedParquetFatal(timestamp, csv_ok, parquet_ok) ==
    IF ~csv_ok
    THEN [writes |-> <<[format |-> "csv", stem |-> timestamp, ok |-> FALSE]>>,
          saved_files |-> <<>>, warned |-> FALSE, raised |-> TRUE]
    ELSE [writes |-> <<[format |-> "csv", stem |-> timestamp, ok |-> TRUE],
                       [format |-> "parquet", stem |-> timestamp, ok |-> parquet_ok]>>,
          saved_files |-> IF parquet_ok THEN <<"csv", "parquet">> ELSE <<>>,
          warned |-> FALSE, raised |-> ~parquet_ok]

\* lines 360-382: to_csv, whose exception is not caught, then to_parquet in
\* a try whose except logs a warning
Saved(timestamp, csv_ok, parquet_ok) ==
    IF ~csv_ok
    THEN [writes |-> <<[format |-> "csv", stem |-> timestamp, ok |-> FALSE]>>,
          saved_files |-> <<>>, warned |-> FALSE, raised |-> TRUE]
    ELSE [writes |-> <<[format |-> "csv", stem |-> timestamp, ok |-> TRUE],
                       [format |-> "parquet", stem |-> timestamp, ok |-> parquet_ok]>>,
          saved_files |-> IF parquet_ok THEN <<"csv", "parquet">> ELSE <<"csv">>,
          warned |-> ~parquet_ok, raised |-> FALSE]

\* step 7; whether a write fails is not decided by the program
save_consolidated_data ==
    /\ pc = "save"
    /\ \E timestamp \in Timestamps, csv_ok \in BOOLEAN, parquet_ok \in BOOLEAN :
          LET saved == Saved(timestamp, csv_ok, parquet_ok)
          IN /\ writes' = saved.writes
             /\ saved_files' = (IF saved.raised THEN saved_files ELSE saved.saved_files)
             /\ warnings' = (IF saved.warned THEN Append(warnings, "parquet") ELSE warnings)
             /\ pc' = (IF saved.raised THEN "raised" ELSE "report")
    /\ UNCHANGED otherThanSaved

otherThanReport ==
    <<cnpjVars, scoreVars, standardizeVars, processed, resolveVars, unified,
      schema_validation, duplicate_detection, final_validation, saved_files, writes,
      pipelineVars, cleanerVars>>

\* step 8: schema_validation has no int key, so input_files counts the years
\* with columns of their own
generate_consolidation_report ==
    /\ pc = "report"
    /\ consolidation_report' =
         [returned |-> TRUE,
          input_files |-> Cardinality(schema_validation.file_specific_columns),
          output_records |-> final_validation.total_rows,
          data_quality_score |-> final_validation.overall_completeness,
          duplicate_reduction |-> duplicate_detection.duplicate_percentage,
          schema_consistency |-> schema_validation.consistency_rate,
          saved_files |-> saved_files]
    /\ pc' = "done"
    /\ UNCHANGED otherThanReport

otherThanResolve ==
    <<cnpjVars, scoreVars, standardizeVars, processed, consolidateVars, pipelineVars, cleanerVars>>

----------------------------------------------------------------------------
(* The specification of consolidate_all_data (lines 418-469) on bounded    *)
(* directories of standardized files                                       *)

notes_stem == <<"n","o","t","e","s">>

next_year_stem == <<"2","0","2","4">>

\* the names, without ".csv", that a file of the directory can have
Stems == {year_stem, processed_stem, next_year_stem, notes_stem}

\* the year a file is about: the one its name gives, if any
StemYear(stem) == IF IntParse(T(stem)).ok THEN IntParse(T(stem)).n ELSE 2023

\* the tables a standardized file can hold
StandardTables(year) ==
    {[cols |-> <<ano, codigo_br>>, rows |-> <<>>],
     [cols |-> <<ano, codigo_br>>,
      rows |-> <<[c \in {ano, codigo_br} |-> IF c = ano THEN I(year) ELSE T(<<"A">>)]>>],
     [cols |-> <<uf, codigo_br, ano>>,
      rows |-> <<[c \in {ano, codigo_br, uf} |->
                    IF c = ano THEN I(year)
                    ELSE IF c = codigo_br THEN T(<<"A">>) ELSE T(<<"S","P">>)]>>]}

\* a file whose bytes are not UTF-8
UndecodableFile(year) ==
    [encoding |-> "latin-1", sep |-> ",", header |-> <<ano, codigo_br>>,
     lines |-> <<<<Digits(year), <<"c_cedil">>>>>>, unreadable |-> {}]

\* a file with a line of more fields than its header
RaggedFile(year) ==
    [encoding |-> "utf-8", sep |-> ",", header |-> <<ano, codigo_br>>,
     lines |-> <<<<Digits(year), <<"A">>, <<"S","P">>>>>>, unreadable |-> {}]

StandardFiles(year) ==
    {ToCsv(t) : t \in StandardTables(year)} \cup {UndecodableFile(year), RaggedFile(year)}

\* the directories: any of the names, each with any of the files
Directories ==
    UNION {{dir \in [present -> UNION {StandardFiles(StemYear(stem)) : stem \in present}] :
                \A stem \in present : dir[stem] \in StandardFiles(StemYear(stem))} :
           present \in SUBSET Stems}

InitConsolidate ==
    /\ pc = "consolidate"
    /\ processed \in Directories
    /\ unified \in BOOLEAN
    /\ strategy \in {"keep_latest", "keep_all"}
    /\ dataframes = <<>>
    /\ sorted_df = NoTable
    /\ consolidated_df = NoTable
    /\ final_df = NoTable
    /\ warnings = <<>>
    /\ schema_validation = NoReport
    /\ duplicate_detection = NoReport
    /\ final_validation = NoReport
    /\ saved_files = <<>>
    /\ writes = <<>>
    /\ consolidation_report = NoReport
    /\ CnpjIdle
    /\ ScoreIdle
    /\ StandardizeIdle
    /\ PipelineIdle
    /\ CleanerIdle

consolidate_all_data ==
    \/ load_standardized_files
    \/ validate_schema_consistency
    \/ standardize_schemas
    \/ detect_duplicates_across_years
    \/ resolve_duplicates /\ UNCHANGED otherThanResolve
    \/ validate_consolidated_data
    \/ save_consolidated_data
    \/ generate_consolidation_report

NextConsolidate == consolidate_all_data

SpecConsolidate == InitConsolidate /\ [][NextConsolidate]_vars

\* the files of the directory that the loop of load_standardized_files can load
LoadableStems ==
    {stem \in DOMAIN processed :
        /\ IntParse(T(stem)).ok
        /\ ~ReadCsvRaises(processed[stem], standardized_config)}

\* C8: when no file of the directory can be loaded, load_standardized_files
\* raises instead of returning an empty result (the run never gets past the
\* load), and no consolidated dataset is written.
C8_NoLoadableFileIsFatalInLoad ==
    LoadableStems = {} =>
        /\ pc \in {"consolidate", "raised"}
        /\ schema_validation = NoReport
        /\ saved_files = <<>>

----------------------------------------------------------------------------
(* The run from raw yearly files to the consolidated dataset: each raw     *)
(* file goes through standardize_file into the processed directory under   *)
(* the name of its year (settings.py lines 147-149), then                  *)
(* consolidate_all_data reads the directory                                *)

otherThanRun == <<resolveVars, cnpjVars, scoreVars, consolidateVars, cleanerVars>>

\* the run takes the next raw file, or consolidates when none is left
next_file ==
    /\ pc = "next_file"
    /\ IF pending = <<>>
       THEN /\ pc' = "consolidate"
            /\ UNCHANGED <<pending, standardizeVars>>
       ELSE /\ pc' = "load"
            /\ input_file' = Head(pending).file
            /\ output_stem' = Digits(Head(pending).year)
            /\ pending' = Tail(pending)
            /\ attempts' = <<>>
            /\ df_raw' = NoTable
            /\ df_clean' = NoTable
            /\ df_validated' = NoTable
            /\ report' = NoReport
    /\ UNCHANGED <<reports, processed, otherThanRun>>

\* the report of the file is kept
file_done ==
    /\ pc = "emitted"
    /\ reports' = Append(reports, report)
    /\ pc' = "next_file"
    /\ UNCHANGED <<pending, standardizeVars, processed, otherThanRun>>

\* rows of one raw file of the run
MaxYearRows == 2

\* the two formats of the raw files of the run
RunFormats == {[encoding |-> "latin-1", sep |-> ";"], [encoding |-> "utf-8", sep |-> ","]}

\* the lines of the raw file of a year: no product code is in two years
RunLines(year) ==
    {<<Digits(year), code, <<"S","P">>>> :
        code \in (IF year = 2023 THEN {<<"A">>, <<"c_cedil">>} ELSE {<<"B">>, <<"a_tilde">>})}

\* the raw files of a year: one to MaxYearRows lines, no line twice
RunFiles(year) ==
    UNION {{[encoding |-> config.encoding, sep |-> config.sep, header |-> RawHeader,
             lines |-> lines, unreadable |-> {}] :
                config \in RunFormats,
                lines \in {l \in [1..n -> RunLines(year)] :
                              \A i, j \in 1..n : l[i] = l[j] => i = j}} :
           n \in 1..MaxYearRows}

InitPipeline ==
    /\ pc = "next_file"
    /\ \E first \in RunFiles(2023), second \in RunFiles(2024) :
          pending = <<[year |-> 2023, file |-> first], [year |-> 2024, file |-> second]>>
    /\ reports = <<>>
    /\ processed = NoFiles
    /\ StandardizeIdle
    /\ ResolveIdle
    /\ CnpjIdle
    /\ ScoreIdle
    /\ ConsolidateIdle
    /\ CleanerIdle

NextPipeline ==
    \/ next_file
    \/ standardize_file
    \/ file_done
    \/ consolidate_all_data

SpecPipeline == InitPipeline /\ [][NextPipeline]_vars

\* C10: the raw files of the run are in the two formats, have the same
\* columns and no duplicate rows; when the run is done, each standardized file
\* has as many rows as its raw file and no annotation column, the consolidated
\* dataset has as many rows as the raw files together, the schema consistency
\* rate is 100 and the duplicate percentage is 0.
C10_RunKeepsEveryRow ==
    pc = "done" =>
        /\ Len(reports) = 2
        /\ \A k \in DOMAIN reports : reports[k].rows_output = reports[k].rows_input
        /\ \A stem \in DOMAIN processed :
              \A c \in Range(processed[stem].header) : c \notin AnnotationColumns
        /\ final_validation.total_rows = reports[1].rows_input + reports[2].rows_input
        /\ schema_validation.consistency_rate.num
              = 100 * schema_validation.consistency_rate.den
        /\ duplicate_detection.duplicate_percentage.num = 0

----------------------------------------------------------------------------
(* Schema reconciliation, duplicate detection and schema validation in     *)
(* consolidate_all_data                                                    *)

\* the table load_standardized_files read for a year
LoadedTable(year) ==
    LET stem == CHOOSE st \in LoadableStems : NumeralValue(st) = year
    IN ReadCsv(processed[stem], standardized_config)

\* the schemas differ: step 3 has run standardize_schemas
Reconciled ==
    /\ pc = "detect"
    /\ schema_validation.consistency_rate.num < 100 * schema_validation.consistency_rate.den

\* C11: after standardize_schemas every table has the same column list in
\* the same order: the unified schema when the config has one, else the
\* columns of all tables in sorted order; and a column that the table read
\* from the file did not have is missing in every row.
C11_ReconciledTablesShareColumns ==
    Reconciled =>
        LET union == UNION {Range(LoadedTable(dataframes[k].year).cols) : k \in DOMAIN dataframes}
            target == dataframes[1].df.cols
        IN /\ \A k \in DOMAIN dataframes : dataframes[k].df.cols = target
           /\ IF unified
              THEN target = unified_schema
              ELSE /\ Range(target) = union
                   /\ Len(target) = Cardinality(union)
                   /\ \A n \in 1..(Len(target) - 1) : TextLess(target[n], target[n + 1])
           /\ \A k \in DOMAIN dataframes :
                 LET before == LoadedTable(dataframes[k].year)
                 IN /\ Len(dataframes[k].df.rows) = Len(before.rows)
                    /\ \A c \in Range(target) \ Range(before.cols) :
                          \A r \in DOMAIN dataframes[k].df.rows :
                              IsNa(dataframes[k].df.rows[r][c])

\* two tables with rows and different columns reconciled to the sorted union
C11_Witness ==
    /\ Reconciled
    /\ ~unified
    /\ Len(dataframes) = 2
    /\ \A k \in DOMAIN dataframes : dataframes[k].df.rows # <<>>
    /\ \E k \in DOMAIN dataframes : IsNa(dataframes[k].df.rows[1][uf])

\* detect_duplicates_across_years called on bounded yearly tables
InitDetect ==
    /\ pc = "detect"
    /\ \E years \in YearLists :
          \E dfs \in YearlyFrames(years) :
              dataframes = [k \in 1..Len(years) |-> [year |-> years[k], df |-> dfs[k]]]
    /\ strategy = "keep_latest"
    /\ sorted_df = NoTable
    /\ consolidated_df = NoTable
    /\ final_df = NoTable
    /\ warnings = <<>>
    /\ CnpjIdle
    /\ ScoreIdle
    /\ StandardizeIdle
    /\ processed = NoFiles
    /\ ConsolidateIdle
    /\ PipelineIdle
    /\ CleanerIdle

NextDetect == detect_duplicates_across_years

SpecDetect == InitDetect /\ [][NextDetect]_vars

\* the rows of all tables, each with its source year
TaggedRows == Concat([k \in 1..Len(dataframes) |-> WithSourceYear(dataframes[k])])

\* the rows equal to row k in every column except ano and the source year
SameRecord(k) ==
    {j \in DOMAIN TaggedRows.rows :
        \A c \in Range(TaggedRows.cols) \ {ano, source_year} :
            TaggedRows.rows[j][c] = TaggedRows.rows[k][c]}

\* the rows with at least one other row of the same record
FlaggedRows == {k \in DOMAIN TaggedRows.rows : SameRecord(k) # {k}}

SpansYears(k) == Cardinality({TaggedRows.rows[j][source_year] : j \in SameRecord(k)}) > 1

\* C12 (totals): the duplicate report counts the rows that have another row
\* equal in every column except ano and the source year, and gives them as a
\* percentage of all rows.
C12_TotalsCountFlaggedRows ==
    (pc = "resolve" /\ dataframes # <<>>) =>
        /\ duplicate_detection.total_records = Len(TaggedRows.rows)
        /\ duplicate_detection.total_duplicates = Cardinality(FlaggedRows)
        /\ duplicate_detection.duplicate_percentage =
              [num |-> 100 * Cardinality(FlaggedRows), den |-> Len(TaggedRows.rows)]

\* C12: as above, and every group of flagged rows is counted: as cross-year
\* when its rows come from more than one source year, as same-year otherwise.
C12_DuplicatesFlaggedAndGrouped ==
    (pc = "resolve" /\ dataframes # <<>>) =>
        /\ C12_TotalsCountFlaggedRows
        /\ duplicate_detection.unique_duplicate_groups =
              Cardinality({SameRecord(k) : k \in FlaggedRows})
        /\ duplicate_detection.cross_year_duplicates =
              Cardinality({k \in FlaggedRows : SpansYears(k)})
        /\ duplicate_detection.same_year_duplicates =
              Cardinality({k \in FlaggedRows : ~SpansYears(k)})

\* validate_schema_consistency has returned and the tables are those it saw
SchemaValidated ==
    \/ pc = "standardize_schemas"
    \/ pc = "detect" /\ ~Reconciled

\* C13: the schema report gives as common columns the intersection of the
\* column sets of the tables and as consistency rate 100 * |common| / |union|;
\* the rate is 100 exactly when all tables have the same column set.
C13_RateIsCommonOverUnion ==
    SchemaValidated =>
        LET sets == {Range(dataframes[k].df.cols) : k \in DOMAIN dataframes}
            union == UNION sets
            common == {c \in union : \A set \in sets : c \in set}
            rate == schema_validation.consistency_rate
        IN /\ Range(schema_validation.common_column_list) = common
           /\ schema_validation.common_columns = Cardinality(common)
           /\ schema_validation.total_unique_columns = Cardinality(union)
           /\ rate.num * Cardinality(union) = 100 * Cardinality(common) * rate.den
           /\ (rate.num = 100 * rate.den) <=> (Cardinality(sets) = 1)

\* two tables, two of their three columns common
C13_Witness ==
    /\ pc = "standardize_schemas"
    /\ Len(dataframes) = 2
    /\ schema_validation.common_columns = 2
    /\ schema_validation.total_unique_columns = 3
    /\ uf \in Range(dataframes[1].df.cols)

----------------------------------------------------------------------------
(* save_consolidated_data                                                  *)

\* C14: the CSV is written first and the Parquet file second, under the same
\* timestamped name; when the Parquet write fails a warning is logged, the
\* run goes on, and the files returned and reported are the CSV alone; when
\* the CSV write fails the run is raised out of and no Parquet write is made.
C14_ParquetIsBestEffort ==
    writes # <<>> =>
        /\ writes[1].format = "csv"
        /\ Len(writes) <= 2
        /\ Len(writes) = 2 =>
              /\ writes[1].ok
              /\ writes[2].format = "parquet"
              /\ writes[2].stem = writes[1].stem
        /\ ~writes[1].ok =>
              /\ Len(writes) = 1
              /\ pc = "raised"
              /\ saved_files = <<>>
              /\ consolidation_report = NoReport
        /\ writes[1].ok =>
              /\ Len(writes) = 2
              /\ pc \in {"report", "done"}
              /\ saved_files = (IF writes[2].ok THEN <<"csv", "parquet">> ELSE <<"csv">>)
              /\ writes[2].ok <=> "parquet" \notin Range(warnings)
              /\ pc = "done" => consolidation_report.saved_files = saved_files

\* a run that ends with its report after the Parquet write failed
C14_Witness ==
    /\ pc = "done"
    /\ Len(writes) = 2
    /\ ~writes[2].ok
    /\ consolidation_report.saved_files = <<"csv">>

----------------------------------------------------------------------------
(* resolve_duplicates: the strategies other than keep_latest               *)

\* line 256: the tables with their source columns, concatenated
Combined == Concat([k \in 1..Len(dataframes) |-> WithSource(dataframes[k])])

\* lines 261-266 and 281-283: what the keep_latest branch returns when its
\* sort returns the frame sorted
KeepLatestResult(sorted) ==
    LET key_columns == ResolveKeyColumns(Combined.cols)
        kept == DropDuplicates(sorted, key_columns)
    IN Project(kept, ResolveBusinessColumns(kept.cols))

\* C15: with strategy aggregate, resolve_duplicates returns the table that
\* keep_latest returns on the same tables (for the same outcome of the sort by
\* source year), and logs one warning more: that aggregation is not
\* implemented.
C15_AggregateIsKeepLatest ==
    pc = "resolved" =>
        /\ strategy = "aggregate" =>
              /\ sorted_df \in SortValuesDescending(Combined, source_year)
              /\ final_df = KeepLatestResult(sorted_df)
              /\ warnings = <<"aggregate">>
        /\ strategy = "keep_latest" =>
              /\ final_df = KeepLatestResult(sorted_df)
              /\ warnings = <<>>

\* an aggregate call on two years' tables that removed a duplicate
C15_Witness ==
    /\ pc = "resolved"
    /\ strategy = "aggregate"
    /\ Len(dataframes) = 2
    /\ Len(final_df.rows) < Len(Combined.rows)
    /\ warnings = <<"aggregate">>

\* the number of rows in the tables before the k-th, in the dict's order
RECURSIVE RowsBefore(_)
RowsBefore(k) ==
    IF k = 1 THEN 0 ELSE RowsBefore(k - 1) + Len(dataframes[k - 1].df.rows)

\* C16: with strategy keep_all, resolve_duplicates removes no row: the output
\* has the rows of the input tables, table after table in the dict's order and
\* each table's rows in their order, and its columns are those of the
\* concatenation without _source_year and _consolidation_id.
C16_KeepAllKeepsEveryRow ==
    (pc = "resolved" /\ strategy = "keep_all") =>
        /\ final_df.cols =
              SelectSeq(Combined.cols, LAMBDA c : c \notin {source_year, consolidation_id})
        /\ Len(final_df.rows) = RowsBefore(Len(dataframes) + 1)
        /\ \A k \in 1..Len(dataframes) : \A j \in 1..Len(dataframes[k].df.rows) :
              final_df.rows[RowsBefore(k) + j] =
                  Reindex(dataframes[k].df.rows[j], final_df.cols)

\* a keep_all call on two years' tables that returns three rows, the first
\* two of them equal
C16_Witness ==
    /\ pc = "resolved"
    /\ strategy = "keep_all"
    /\ dataframes # <<>>
    /\ dataframes[1].year = 2023
    /\ Len(final_df.rows) = 3
    /\ final_df.rows[1] = final_df.rows[2]
    /\ final_df.rows[1][ano] = I(2024)

----------------------------------------------------------------------------
(* standardize_column_names (cleaners.py lines 15-68) and the processor's  *)
(* _standardize_column_names (processor.py lines 179-196) on raw names     *)

\* cleaners.py lines 33-40: the entries whose keys are characters of the model
cleaners_char_map ==
    <<<<<<"a_tilde">>, <<"a">>>>, <<<<"c_cedil">>, <<"c">>>>>>

\* the steps of lines 46-63 with the underscores stripped before the pattern
\* is applied
CleanersColumnNameStripFirst(col) ==
    LET lowered == Strip(Lower(col))
        mapped == StripUnderscores(ReplaceEach(lowered, cleaners_char_map))
        subbed == [k \in DOMAIN mapped |-> IF IsWord(mapped[k]) THEN mapped[k] ELSE "_"]
    IN Squeeze(subbed)

\* cleaners.py lines 46-63: the new name of one column
CleanersColumnName(col) ==
    LET lowered == Strip(Lower(col))
        mapped == ReplaceEach(lowered, cleaners_char_map)
        subbed == [k \in DOMAIN mapped |-> IF IsWord(mapped[k]) THEN mapped[k] ELSE "_"]
    IN StripUnderscores(Squeeze(subbed))

\* the column names of the table a call returns
new_columns(columns) ==
    [n \in DOMAIN columns |->
        IF cleaner = "cleaners" THEN CleanersColumnName(columns[n])
        ELSE CleanColumnName(columns[n])]

\* one call, on the raw table or on the table the call before returned
StandardizeColumnNames ==
    /\ pc = "names"
    /\ Len(cleaned) < 2
    /\ cleaned' = Append(cleaned, new_columns(IF cleaned = <<>> THEN value
                                              ELSE cleaned[Len(cleaned)]))
    /\ UNCHANGED <<pc, cleaner, value>>

MaxNameLen == 3

\* the characters of raw column names
NameCharacters == {"A", "a_tilde", "A_tilde", "sect", "u_uml", " ", "_", "$", "1"}

\* the raw names of up to n characters
RawNames(n) == UNION {[1..len -> NameCharacters] : len \in 1..n}

InitColumnNames ==
    /\ pc = "names"
    /\ cleaner \in {"cleaners", "processor"}
    /\ value \in {<<name>> : name \in RawNames(MaxNameLen)}
    /\ cleaned = <<>>
    /\ ResolveIdle
    /\ CnpjIdle
    /\ ScoreIdle
    /\ StandardizeIdle
    /\ processed = NoFiles
    /\ ConsolidateIdle
    /\ PipelineIdle

NextColumnNames ==
    StandardizeColumnNames
        /\ UNCHANGED <<resolveVars, cnpjVars, scoreVars, standardizeVars, processed,
                       consolidateVars, pipelineVars>>

SpecColumnNames == InitColumnNames /\ [][NextColumnNames]_vars

\* the characters of [a-z0-9_]
AsciiWord == {LowerLetters[n] : n \in 1..26} \cup AsciiDigits \cup {"_"}

\* C17: every column name a call of standardize_column_names returns, from
\* cleaners.py or from the processor, is made of lowercase ASCII letters,
\* digits and underscores only.
C17_NamesAreAsciiWords ==
    \A k \in DOMAIN cleaned : \A n \in DOMAIN cleaned[k] :
        Range(cleaned[k][n]) \subseteq AsciiWord

\* what does hold of the names returned: word characters of the pattern \w
\* that no lowercasing changes, no two underscores in a row, none at the ends
C17_NamesAreLowerWords ==
    \A k \in DOMAIN cleaned : \A n \in DOMAIN cleaned[k] :
        LET name == cleaned[k][n]
        IN /\ \A j \in DOMAIN name : IsWord(name[j])
           /\ Lower(name) = name
           /\ Squeeze(name) = name
           /\ name # <<>> => name[1] # "_" /\ name[Len(name)] # "_"

\* C18: applying standardize_column_names of cleaners.py to the table it
\* returned gives the same column names again.
C18_SecondCallChangesNothing ==
    (cleaner = "cleaners" /\ Len(cleaned) = 2) => cleaned[2] = cleaned[1]

\* a second call on a name that the first call changed
C18_Witness ==
    /\ cleaner = "cleaners"
    /\ Len(cleaned) = 2
    /\ cleaned[1] # value
    /\ cleaned[1] = <<<<"a", "_", "a">>>>

----------------------------------------------------------------------------
(* clean_currency_value (cleaners.py lines 175-222) and the processor's    *)
(* _clean_currency (processor.py lines 244-270)                            *)

\* line 217: re.sub(r'[^\d.]', '', clean_value)
DigitsAndDots(text) == SelectSeq(text, LAMBDA c : IsDecimal(c) \/ c = ".")

\* cleaners.py lines 193-222; lines 196-214 rewrite the text as lines 251-265
\* of the processor do
clean_currency_value(v) ==
    IF "t" \in DOMAIN v
    THEN LET clean_value == DigitsAndDots(CurrencyText(v.t))
         IN IF IsFloatNumeral(clean_value) THEN FloatValue(Strip(clean_value))
            ELSE IF IsFloatInfinity(clean_value) THEN INF
            ELSE NA
    ELSE NA

\* one call of the function of either module
CleanCurrency ==
    /\ pc = "currency"
    /\ cleaned = <<>>
    /\ cleaned' = <<IF cleaner = "cleaners" THEN clean_currency_value(value)
                    ELSE clean_currency(value)>>
    /\ UNCHANGED <<pc, cleaner, value>>

MaxCurrencyLen == 4

CurrencyCharacters == {"$", " ", "1", ".", ",", "-", "x"}

\* the examples of the docstring, lines 186-191
CurrencyExamples ==
    {<<"R", "$", " ", "1", ".", "2", "3", "4", ",", "5", "6">>,
     <<"1", "2", "3", "4", ",", "5", "6">>,
     <<"i", "n", "v", "a", "l", "i", "d">>}

\* the arguments: texts of up to n characters, the examples, and values that
\* are no text
CurrencyArguments(n) ==
    {T(t) : t \in UNION {[1..len -> CurrencyCharacters] : len \in 0..n}}
    \cup {T(t) : t \in CurrencyExamples}
    \cup {NA, I(1)}

InitCurrency ==
    /\ pc = "currency"
    /\ cleaner \in {"cleaners", "processor"}
    /\ value \in CurrencyArguments(MaxCurrencyLen)
    /\ cleaned = <<>>
    /\ ResolveIdle
    /\ CnpjIdle
    /\ ScoreIdle
    /\ StandardizeIdle
    /\ processed = NoFiles
    /\ ConsolidateIdle
    /\ PipelineIdle

NextCurrency ==
    CleanCurrency
        /\ UNCHANGED <<resolveVars, cnpjVars, scoreVars, standardizeVars, processed,
                       consolidateVars, pipelineVars>>

SpecCurrency == InitCurrency /\ [][NextCurrency]_vars

\* the text with its last "," turned into "."
RECURSIVE LastCommaToDot(_)
LastCommaToDot(text) ==
    IF text = <<>> THEN <<>>
    ELSE IF text[Len(text)] = "," THEN SubSeq(text, 1, Len(text) - 1) \o <<".">>
    ELSE LastCommaToDot(SubSeq(text, 1, Len(text) - 1)) \o <<text[Len(text)]>>

\* the numeral the claim has the text rewritten to
ClaimedNumeral(text) ==
    LET bare == SelectSeq(text, LAMBDA c : c \notin {"R", "$"} \cup Whitespace)
        has(c) == \E k \in DOMAIN bare : bare[k] = c
    IN IF has(",") /\ has(".")
       THEN LastCommaToDot(SelectSeq(bare, LAMBDA c : c # "."))
       ELSE IF has(",") THEN ReplaceAll(bare, <<",">>, <<".">>)
       ELSE bare

\* the number the numeral denotes, missing when it denotes none
DenotedNumber(numeral) ==
    IF numeral # <<>> /\ IsFloatNumeral(numeral) THEN FloatValue(numeral) ELSE NA

\* C19: clean_currency_value removes the currency symbol and whitespace, takes
\* every "." for a thousands separator and the last "," for the decimal
\* separator when both occur, a "," alone for the decimal separator, and
\* returns the number the rewritten numeral denotes, or missing when it
\* denotes no number.
C19_ValueOfRewrittenNumeral ==
    (cleaned # <<>> /\ pc = "currency" /\ "t" \in DOMAIN value) =>
        cleaned[1] = DenotedNumber(ClaimedNumeral(value.t))

\* what holds of both functions: the examples of the claim
C19_ExamplesHold ==
    (cleaned # <<>> /\ pc = "currency" /\ "t" \in DOMAIN value
        /\ value.t \in CurrencyExamples) =>
        cleaned[1] = (IF value.t[1] = "i" THEN NA
                      ELSE Dec(FALSE, 1234, <<"5", "6">>))

\* what holds of the processor's function: it returns what the text that
\* lines 251-265 rewrote denotes
C19_ProcessorValueOfRewrittenText ==
    (cleaned # <<>> /\ pc = "currency" /\ "t" \in DOMAIN value /\ cleaner = "processor") =>
        cleaned[1] = DenotedNumber(CurrencyText(value.t))

----------------------------------------------------------------------------
(* standardize_cnpj (cleaners.py lines 124-152) and the processor's        *)
(* _standardize_cnpj (processor.py lines 227-234)                          *)

\* a standardize_cnpj that returns only what validate_cnpj accepts
cleaners_standardize_cnpj_checked(v) ==
    IF "t" \in DOMAIN v
    THEN LET digits_only == SelectSeq(v.t, IsDecimal)
         IN IF Len(digits_only) = 14 /\ validate_cnpj(T(digits_only)) = "True"
            THEN T(digits_only) ELSE NA
    ELSE NA

\* cleaners.py lines 142-152; the pattern \D matches what is no decimal digit
cleaners_standardize_cnpj(v) ==
    IF "t" \notin DOMAIN v THEN NA
    ELSE LET digits_only == SelectSeq(v.t, IsDecimal)
         IN IF Len(digits_only) = 14 THEN T(digits_only) ELSE NA

\* one call of the function of either module
StandardizeCnpj ==
    /\ pc = "cnpj_format"
    /\ cleaned = <<>>
    /\ cleaned' = <<IF cleaner = "cleaners" THEN cleaners_standardize_cnpj(value)
                    ELSE standardize_cnpj(value)>>
    /\ UNCHANGED <<pc, cleaner, value>>

\* "12.345.678/0001-90", the example of the docstring (line 135)
FormattedCnpj ==
    <<"1","2",".","3","4","5",".","6","7","8","/","0","0","0","1","-","9","0">>

\* the arguments of validate_cnpj, the formatted example with up to MaxEdits
\* characters changed, and "123"
CnpjFormatArguments ==
    CnpjArguments \cup {T(t) : t \in Edited(FormattedCnpj, MaxEdits)}
                  \cup {T(<<"1", "2", "3">>)}

InitCnpjFormat ==
    /\ pc = "cnpj_format"
    /\ cleaner \in {"cleaners", "processor"}
    /\ value \in CnpjFormatArguments
    /\ cleaned = <<>>
    /\ ResolveIdle
    /\ CnpjIdle
    /\ ScoreIdle
    /\ StandardizeIdle
    /\ processed = NoFiles
    /\ ConsolidateIdle
    /\ PipelineIdle

NextCnpjFormat ==
    StandardizeCnpj
        /\ UNCHANGED <<resolveVars, cnpjVars, scoreVars, standardizeVars, processed,
                       consolidateVars, pipelineVars>>

SpecCnpjFormat == InitCnpjFormat /\ [][NextCnpjFormat]_vars

\* the positions of the text that hold a decimal digit
DigitPositions(text) == {k \in DOMAIN text : IsDecimal(text[k])}

\* the position of the k-th digit of the text
NthDigitPosition(text, k) ==
    CHOOSE p \in DigitPositions(text) :
        Cardinality({q \in DigitPositions(text) : q < p}) = k - 1

\* C20: for a text, standardize_cnpj returns a text exactly when the text has
\* 14 digit characters, and then the text of those digits in their order, with
\* every other character left out, whatever the check digits; otherwise it
\* returns missing.  "12.345.678/0001-90" gives "12345678000190" and "123"
\* gives missing.
C20_FourteenDigitsOrMissing ==
    (pc = "cnpj_format" /\ cleaned # <<>> /\ "t" \in DOMAIN value) =>
        LET result == cleaned[1]
            positions == DigitPositions(value.t)
        IN /\ result # NA <=> Cardinality(positions) = 14
           /\ result # NA =>
                 /\ Len(result.t) = 14
                 /\ \A k \in 1..14 : IsDecimal(result.t[k])
                 /\ \A k \in 1..14 : result.t[k] = value.t[NthDigitPosition(value.t, k)]
           /\ value.t = FormattedCnpj => result = T(KnownInvalidCnpj)
           /\ value.t = <<"1", "2", "3">> => result = NA

\* the formatted example: its digits are returned though validate_cnpj
\* rejects them
C20_Witness ==
    /\ pc = "cnpj_format"
    /\ cleaner = "cleaners"
    /\ value = T(FormattedCnpj)
    /\ cleaned = <<T(KnownInvalidCnpj)>>
    /\ validate_cnpj(cleaned[1]) = "False"

----------------------------------------------------------------------------
(* validate_dataframe of validators.py (lines 200-237) and of the          *)
(* processor (lines 100-126) on one-row tables                             *)

\* lines 221-228: any(...) over the CNPJ fields the row has a value for
ValidatorsHasValidCnpj(r) ==
    LET present == SelectSeq(cnpj_fields, LAMBDA f : Present(r, f))
    IN FirstTrue([k \in DOMAIN present |-> validate_cnpj(T(Str(r[present[k]])))])

\* lines 230-232: df_validated['uf'] raises KeyError without the column
ValidatorsHasValidState(df, k) ==
    IF uf \notin Range(df.cols) THEN "KeyError"
    ELSE IF IsNa(df.rows[k][uf]) THEN "False"
    ELSE IF validate_brazilian_state(Str(df.rows[k][uf])) THEN "True" ELSE "False"

\* lines 234-236: df_validated['ano'] raises KeyError without the column
ValidatorsHasValidYear(df, k) ==
    IF ano \notin Range(df.cols) THEN "KeyError"
    ELSE IF IsNa(df.rows[k][ano]) THEN "False"
    ELSE validate_year_range(df.rows[k][ano])

\* whether one of the four passes over the rows raises
ValidatorsValidateRaises(df, rules) ==
    \/ \E k \in DOMAIN df.rows : Raised(UntilRaise(ValidatorChecks(df.rows[k], rules)))
    \/ AnyRaises([k \in DOMAIN df.rows |-> ValidatorsHasValidCnpj(df.rows[k])])
    \/ AnyRaises([k \in DOMAIN df.rows |-> ValidatorsHasValidState(df, k)])
    \/ AnyRaises([k \in DOMAIN df.rows |-> ValidatorsHasValidYear(df, k)])

\* the table returned: quality_score, then the three flags
ValidatorsValidated(df, rules) ==
    LET scored == SetColumn(df, quality_score,
                     [k \in DOMAIN df.rows |-> Q(ScoreOf(ValidatorChecks(df.rows[k], rules)))])
        with_cnpj == SetColumn(scored, has_valid_cnpj,
                        Flags([k \in DOMAIN df.rows |-> ValidatorsHasValidCnpj(df.rows[k])]))
        with_state == SetColumn(with_cnpj, has_valid_state,
                        Flags([k \in DOMAIN df.rows |-> ValidatorsHasValidState(df, k)]))
    IN SetColumn(with_state, has_valid_year,
                 Flags([k \in DOMAIN df.rows |-> ValidatorsHasValidYear(df, k)]))

\* validators.validate_dataframe(df_clean, validation_rules)
ValidatorsValidateDataframe ==
    /\ pc = "validate"
    /\ scorer = "validators"
    /\ IF ValidatorsValidateRaises(df_clean, validation_rules)
       THEN pc' = "raised" /\ df_validated' = df_validated
       ELSE pc' = "emit" /\ df_validated' = ValidatorsValidated(df_clean, validation_rules)
    /\ UNCHANGED <<input_file, output_stem, attempts, df_raw, df_clean, report, processed>>

\* the processor's validate_dataframe
ProcessorValidateDataframe ==
    /\ scorer = "processor"
    /\ validate_dataframe

InitValidate ==
    /\ pc = "validate"
    /\ \E r \in ScoredRows : df_clean = [cols |-> Index(r), rows |-> <<r>>]
    /\ scorer \in {"validators", "processor"}
    /\ validation_rules \in (IF scorer = "validators" THEN RuleSets ELSE {NoRules})
    /\ row = <<>>
    /\ checks = <<>>
    /\ score = NoScore
    /\ input_file = NoFile
    /\ output_stem = <<>>
    /\ attempts = <<>>
    /\ df_raw = NoTable
    /\ df_validated = NoTable
    /\ report = NoReport
    /\ ResolveIdle
    /\ CnpjIdle
    /\ processed = NoFiles
    /\ ConsolidateIdle
    /\ PipelineIdle
    /\ CleanerIdle

NextValidate ==
    \/ ValidatorsValidateDataframe /\ UNCHANGED otherThanStandardize
    \/ ProcessorValidateDataframe /\ UNCHANGED otherThanStandardize

SpecValidate == InitValidate /\ [][NextValidate]_vars

\* C21: validate_dataframe, of validators.py and of the processor, completes
\* on every table, whatever the values and the columns of its rows; a check
\* that fails gives a false flag.
C21_ValidateNeverRaises ==
    pc # "validate" =>
        /\ pc = "emit"
        /\ \A k \in DOMAIN df_validated.rows :
              \A c \in {has_valid_cnpj, has_valid_state, has_valid_year} :
                  df_validated.rows[k][c] \in {B(TRUE), B(FALSE)}

\* the rule set that names the fields line 348 of the processor requires
ProcessorRules(index) ==
    [has_required |-> TRUE,
     required_fields |-> <<ano, uf>> \o ColumnsWith(index, <<"d","e","s","c","r","i","c","a","o">>)]

\* the score calculate_row_quality_score returns for the row
ValidatorScore(r, rules) == ScoreOf(ValidatorChecks(r, rules))

SameScore(a, b) == a.num * b.den = b.num * a.den

\* C22: the quality_score that the processor's validate_dataframe attaches to a
\* row is the score calculate_row_quality_score of validators.py gives for the
\* same cleaned row, with the fields the processor requires as required fields.
C22_ProcessorScoreIsValidatorScore ==
    (pc = "emit" /\ scorer = "processor") =>
        \A k \in DOMAIN df_clean.rows :
            SameScore(df_validated.rows[k][quality_score].q,
                      ValidatorScore(df_clean.rows[k], ProcessorRules(df_clean.cols)))

\* C22 for any rule set: no rule set makes the two scores agree on every row
C22_SomeRulesGiveProcessorScore ==
    (pc = "emit" /\ scorer = "processor") =>
        \A k \in DOMAIN df_clean.rows :
            \E rules \in RuleSets \cup {ProcessorRules(df_clean.cols)} :
                SameScore(df_validated.rows[k][quality_score].q,
                          ValidatorScore(df_clean.rows[k], rules))

----------------------------------------------------------------------------
(* clean_dataframe of cleaners.py (lines 245-275) and of the processor     *)
(* (lines 64-98) on one-column tables                                      *)

\* sorted(encoding_fixes.items(), key=lambda x: len(x[0]), reverse=True): the
\* pairs with the longest keys first, pairs of one length in dict order
RECURSIVE LongestFirst(_, _)
LongestFirst(pairs, len) ==
    IF len = 0 THEN <<>>
    ELSE SelectSeq(pairs, LAMBDA pair : Len(pair[1]) = len) \o LongestFirst(pairs, len - 1)

\* fix_brazilian_encoding (cleaners.py lines 87-97)
fix_brazilian_encoding(v) ==
    IF "t" \in DOMAIN v
    THEN LET longest == Max({Len(encoding_fixes[k][1]) : k \in DOMAIN encoding_fixes})
         IN T(ReplaceEach(v.t, LongestFirst(encoding_fixes, longest)))
    ELSE v

\* lines 260-261: the columns whose text is fixed
cleaners_text_columns ==
    {descricao_catmat, fabricante, fornecedor, nome_instituicao, municipio_instituicao}

\* the three cleaning steps of cleaners.py on one cell of column col
CleanersCleanCell(col, v) ==
    LET is_cnpj == Contains(Lower(col), <<"c","n","p","j">>)
        is_currency == Contains(Lower(col), <<"p","r","e","c","o">>)
        fixed == IF col \in cleaners_text_columns THEN fix_brazilian_encoding(v) ELSE v
        digits == IF is_cnpj THEN cleaners_standardize_cnpj(fixed) ELSE fixed
    IN IF is_currency THEN clean_currency_value(digits) ELSE digits

\* the table cleaners.clean_dataframe returns
CleanersCleaned(df) ==
    LET renamed == [n \in DOMAIN df.cols |-> CleanersColumnName(df.cols[n])]
        old(c) == df.cols[CHOOSE n \in DOMAIN df.cols : renamed[n] = c]
    IN [cols |-> renamed,
        rows |-> [k \in DOMAIN df.rows |->
                    [c \in Range(renamed) |-> CleanersCleanCell(c, df.rows[k][old(c)])]]]

CleanersCleanDataframe ==
    /\ pc = "clean"
    /\ cleaner = "cleaners"
    /\ df_clean' = CleanersCleaned(df_raw)
    /\ pc' = "validate"
    /\ UNCHANGED <<input_file, output_stem, attempts, df_raw, df_validated, report, processed>>

ProcessorCleanDataframe ==
    /\ cleaner = "processor"
    /\ clean_dataframe

\* the raw column names: a text column of both, a text column of the
\* processor alone, a price, a price with its cedilla, a CNPJ, a state
RawColumns ==
    {<<"F","a","b","r","i","c","a","n","t","e">>,
     <<"F","a","b","r","i","c","a","n","t","e"," ","2">>,
     <<"P","r","e","c","o">>, <<"P","r","e","c_cedil","o">>,
     <<"C","N","P","J">>, <<"U","F">>}

\* the values of a raw cell
RawCells ==
    {T(<<"A_tilde","sect">>), T(<<"x","A_tilde","permil">>), T(<<"-","1">>),
     T(<<"1",",","5">>), T(<<"R","$"," ","1",".","0","0","0",",","5">>),
     T(<<"1",",","0",".","5">>), T(FormattedCnpj), T(<<"x">>), NA, I(1)}

InitClean ==
    /\ pc = "clean"
    /\ cleaner \in {"cleaners", "processor"}
    /\ \E col \in RawColumns, v \in RawCells :
          df_raw = [cols |-> <<col>>, rows |-> <<[c \in {col} |-> v]>>]
    /\ value = <<>>
    /\ cleaned = <<>>
    /\ input_file = NoFile
    /\ output_stem = <<>>
    /\ attempts = <<>>
    /\ df_clean = NoTable
    /\ df_validated = NoTable
    /\ report = NoReport
    /\ ResolveIdle
    /\ CnpjIdle
    /\ ScoreIdle
    /\ processed = NoFiles
    /\ ConsolidateIdle
    /\ PipelineIdle

NextClean ==
    \/ CleanersCleanDataframe /\ UNCHANGED otherThanStandardize
    \/ ProcessorCleanDataframe /\ UNCHANGED otherThanStandardize

SpecClean == InitClean /\ [][NextClean]_vars

\* C23: on every raw table the processor's clean_dataframe and clean_dataframe
\* of cleaners.py return the same table: the same column names and the same
\* cell values.
C23_ProcessorCleanIsCleanersClean ==
    pc = "validate" =>
        /\ df_clean = CleanersCleaned(df_raw)
        /\ df_clean = ProcessorCleaned(df_raw)

\* C23 in parts: the column names, and the cells of the columns whose names
\* agree
C23_SameColumnNames ==
    pc = "validate" => CleanersCleaned(df_raw).cols = ProcessorCleaned(df_raw).cols

C23_SameCellsUnderSameNames ==
    (pc = "validate" /\ CleanersCleaned(df_raw).cols = ProcessorCleaned(df_raw).cols) =>
        CleanersCleaned(df_raw).rows = ProcessorCleaned(df_raw).rows


----------------------------------------------------------------------------
(* C24: the order of the stages of standardize_file (processor.py 128-176) *)

\* the stage that follows each stage when it returns
StageAfter ==
    [load |-> "clean", clean |-> "validate", validate |-> "emit", emit |-> "emitted"]

\* every read load_raw_csv can make raises on the file
LoadFails(file) ==
    \A k \in DOMAIN (<<primary_config>> \o fallback_configs) :
        ReadCsvRaises(file, (<<primary_config>> \o fallback_configs)[k])

\* C24: a step of standardize_file leaves a stage for the next one of Load,
\* Clean, Validate and Score, Emit, or for the raise of the stage, and after
\* the last stage or a raise there is no step; a stage sets the table of
\* its own and no other, and the file and the report are written by Emit
\* alone; when every read of Load raises, the step of Load ends in the
\* raise with no table cleaned or validated, no file written and no report
\* returned.
C24_StagesInOrder ==
    [][/\ pc \in DOMAIN StageAfter
       /\ pc' \in {StageAfter[pc], "raised"}
       /\ pc # "load" => df_raw' = df_raw
       /\ pc # "clean" => df_clean' = df_clean
       /\ pc # "validate" => df_validated' = df_validated
       /\ pc # "emit" => processed' = processed /\ report' = report
       /\ pc = "emit" => pc' = "emitted" /\ report'.returned /\ output_stem \in DOMAIN processed'
       /\ pc = "load" =>
            IF LoadFails(input_file)
            THEN /\ pc' = "raised"
                 /\ df_raw' = NoTable
                 /\ df_clean' = NoTable
                 /\ df_validated' = NoTable
                 /\ processed' = NoFiles
                 /\ report' = NoReport
            ELSE pc' = "clean"]_vars

\* Load has raised after four reads
C24_Witness ==
    /\ pc = "raised"
    /\ Len(attempts) = 4
    /\ LoadFails(input_file)
    /\ processed = NoFiles
    /\ report = NoReport



----------------------------------------------------------------------------
(* C25: the processed-file naming convention (settings.py 151-153) and     *)
(* load_standardized_files (consolidators.py 53-66)                        *)

\* the name get_processed_csv_filename(year) gives, without ".csv"
get_processed_csv_filename(year) ==
    Digits(year) \o <<"_","p","r","o","c","e","s","s","e","d">>

\* C25: when the directory holds a readable file under the name
\* get_processed_csv_filename(2023), and no other file of that year,
\* load_standardized_files returns its table under the key 2023.
C25_ProcessedNameIsLoaded ==
    LET stem == get_processed_csv_filename(2023)
    IN /\ pc = "validate_schema"
       /\ stem \in DOMAIN processed
       /\ year_stem \notin DOMAIN processed
       /\ ~ReadCsvRaises(processed[stem], standardized_config)
       => \E k \in DOMAIN dataframes :
            /\ dataframes[k].year = 2023
            /\ dataframes[k].df = ReadCsv(processed[stem], standardized_config)

\* C25, the other way: a file under that name is never loaded
C25_ProcessedNameIsSkipped ==
    LET stem == get_processed_csv_filename(2023)
    IN /\ pc = "validate_schema"
       /\ stem \in DOMAIN processed
       /\ year_stem \notin DOMAIN processed
       => \A k \in DOMAIN dataframes : dataframes[k].year # 2023



----------------------------------------------------------------------------
(* C26: keep_latest neither loses nor invents a record (consolidators.py   *)
(* 247-293)                                                                *)

\* the rows of the tables resolve_duplicates was given, as the caller holds
\* them
GivenRows ==
    UNION {{dataframes[k].df.rows[j] : j \in DOMAIN dataframes[k].df.rows} :
           k \in DOMAIN dataframes}

\* C26: after resolve_duplicates with keep_latest, every row of the table
\* returned is a row of one of the tables given, laid out on the returned
\* columns, and every combination of values of the non-year business
\* columns that a given row has is the combination of exactly one returned
\* row.
C26_NoRecordLostOrInvented ==
    KeptLatest =>
        /\ \A i \in DOMAIN final_df.rows :
              \E r \in GivenRows : Reindex(r, final_df.cols) = final_df.rows[i]
        /\ \A r \in GivenRows :
              Cardinality({i \in DOMAIN final_df.rows :
                  KeyOf(final_df.rows[i], NonYearColumns)
                      = KeyOf(Reindex(r, final_df.cols), NonYearColumns)}) = 1

\* three rows given, of two records: one with a state and one without, the
\* first of them in both years
C26_Witness ==
    /\ KeptLatest
    /\ Len(dataframes) = 2
    /\ Cardinality(GivenRows) = 3
    /\ Len(final_df.rows) = 2
    /\ \E i \in DOMAIN final_df.rows : final_df.rows[i][uf] = NA
    /\ \E i \in DOMAIN final_df.rows : final_df.rows[i][uf] # NA



----------------------------------------------------------------------------
(* C27: the breakdown of the duplicate report (consolidators.py 197-225)   *)

\* C27: in every duplicate report with a breakdown, the cross-year and the
\* same-year duplicates add up to the total of the duplicates.
C27_BreakdownAddsUp ==
    (pc = "resolve" /\ dataframes # <<>>) =>
        duplicate_detection.cross_year_duplicates + duplicate_detection.same_year_duplicates
            = duplicate_detection.total_duplicates

\* C27 for tables whose flagged rows have no missing value in a key column
C27_BreakdownAddsUpWithoutMissing ==
    (/\ pc = "resolve"
     /\ dataframes # <<>>
     /\ \A k \in FlaggedRows : ~IsNa(TaggedRows.rows[k][uf]) /\ ~IsNa(TaggedRows.rows[k][codigo_br])) =>
        duplicate_detection.cross_year_duplicates + duplicate_detection.same_year_duplicates
            = duplicate_detection.total_duplicates



----------------------------------------------------------------------------
(* C28: resolve_duplicates with a strategy name it does not know           *)
(* (consolidators.py 259-283)                                              *)

\* lines 268-270 and 281-283: what the keep_all branch returns
KeepAllResult == Project(Combined, ResolveBusinessColumns(Combined.cols))

\* C28: with a strategy name other than keep_latest, keep_all and aggregate,
\* resolve_duplicates returns the table keep_all returns on the same tables,
\* with every row kept, and logs no warning; it raises only on the tables
\* every strategy raises on: no table at all, or tables without rows.
C28_UnknownStrategyIsKeepAll ==
    strategy \notin {"keep_latest", "keep_all", "aggregate"} =>
        /\ pc = "resolved" =>
              /\ final_df = KeepAllResult
              /\ Len(final_df.rows) = RowsBefore(Len(dataframes) + 1)
              /\ warnings = <<>>
        /\ pc = "raised" => dataframes = <<>> \/ Combined.rows = <<>>

\* a call with another name on two years' tables that returns three rows,
\* two of them the same record
C28_Witness ==
    /\ pc = "resolved"
    /\ strategy = "other"
    /\ Len(dataframes) = 2
    /\ Len(final_df.rows) = 3
    /\ \E i, j \in DOMAIN final_df.rows :
          i # j /\ KeyOf(final_df.rows[i], NonYearColumns) = KeyOf(final_df.rows[j], NonYearColumns)



----------------------------------------------------------------------------
(* C29: standardize_schemas (consolidators.py 146-171) on tables with a    *)
(* column the unified schema does not have                                 *)

\* rows of one standardized file
MaxSchemaRows == 2

\* the column lists of the files: two of the unified schema, and one with
\* the annotation column that standardize_file writes
SchemaColumnLists ==
    {<<ano, codigo_br>>, <<uf, codigo_br, ano>>, <<ano, codigo_br, has_positive_prices>>}

SchemaRows(year, cols) ==
    {[c \in Range(cols) |->
         IF c = ano THEN I(year)
         ELSE IF c = codigo_br THEN T(code)
         ELSE IF c = uf THEN T(<<"S","P">>) ELSE B(TRUE)] : code \in {<<"A">>, <<"B">>}}

SchemaTables(year) ==
    UNION {UNION {{[cols |-> cols, rows |-> rows] : rows \in [1..n -> SchemaRows(year, cols)]} :
                     n \in 0..MaxSchemaRows} : cols \in SchemaColumnLists}

\* the directories: a file of 2023, a file of 2024, both or none
SchemaDirectories ==
    LET files(stem) == {ToCsv(t) : t \in SchemaTables(StemYear(stem))}
    IN {NoFiles}
       \cup {[stem \in {year_stem} |-> f] : f \in files(year_stem)}
       \cup {[stem \in {next_year_stem} |-> g] : g \in files(next_year_stem)}
       \cup {[stem \in {year_stem, next_year_stem} |-> IF stem = year_stem THEN f ELSE g] :
                f \in files(year_stem), g \in files(next_year_stem)}

InitSchemas ==
    /\ pc = "consolidate"
    /\ processed \in SchemaDirectories
    /\ unified \in BOOLEAN
    /\ strategy = "keep_latest"
    /\ dataframes = <<>>
    /\ sorted_df = NoTable
    /\ consolidated_df = NoTable
    /\ final_df = NoTable
    /\ warnings = <<>>
    /\ schema_validation = NoReport
    /\ duplicate_detection = NoReport
    /\ final_validation = NoReport
    /\ saved_files = <<>>
    /\ writes = <<>>
    /\ consolidation_report = NoReport
    /\ CnpjIdle
    /\ ScoreIdle
    /\ StandardizeIdle
    /\ PipelineIdle
    /\ CleanerIdle

\* steps 1 to 3 of consolidate_all_data
NextSchemas ==
    \/ load_standardized_files
    \/ validate_schema_consistency
    \/ standardize_schemas

SpecSchemas == InitSchemas /\ [][NextSchemas]_vars

----------------------------------------------------------------------------
(* C30: input_files in the consolidation report (consolidators.py 401-416, *)
(* 99-116)                                                                 *)

\* C30: when consolidate_all_data has returned its report, input_files is
\* the number of yearly tables that were loaded.
C30_InputFilesCountsTables ==
    pc = "done" => consolidation_report.input_files = Len(dataframes)

\* C30, what the report holds: the number of loaded tables with a column
\* that not all tables have, which is 0 when the schemas are the same
C30_InputFilesCountsDifferingTables ==
    pc = "done" =>
        /\ consolidation_report.input_files =
              Cardinality({k \in DOMAIN dataframes :
                  Range(LoadedTable(dataframes[k].year).cols)
                      # CommonColumns([j \in DOMAIN dataframes |->
                            [df |-> LoadedTable(dataframes[j].year)]])})
        /\ schema_validation.consistency_rate.num = 100 * schema_validation.consistency_rate.den
              => consolidation_report.input_files = 0


====
